---------------------------- MODULE Spec2Model ----------------------------
(***************************************************************************)
(* A model of the world-clock utility cv/t: the work-hours overlap engine, *)
(* the relative-offset calculator, the time-spec parser and resolver and   *)
(* the DST transition scanner.                                             *)
(*                                                                         *)
(* The operations are pure functions of their arguments.  Each is an       *)
(* operator computed the way the Go code computes it, and a specification  *)
(* per component draws the arguments in its initial states ("call") and    *)
(* applies the operation once ("done").                                    *)
(*                                                                         *)
(* Strings the code inspects (codes, time specs) are sequences of          *)
(* one-character strings.  Instants are seconds since 00:00:00 UTC of day  *)
(* 0 of the modelled calendar; a calendar date is its day number, so       *)
(* AddDate(0, 0, n) adds n to the day.                                     *)
(***************************************************************************)
EXTENDS Integers, Sequences, FiniteSets, TLC

VARIABLES phase, args, ret

\* The alias store: the first store's map, the file at its path, the store
\* opened on the same path afterwards, and the record of the calls made:
\* the most recent successful call on each name and whether any call
\* returned an error.
VARIABLES aliases, disk, reopened, latest, failed

storeVars == <<aliases, disk, reopened, latest, failed>>

\* FetchAll: the goroutines started so far (each its position, its code and
\* the Info its fetch returned), the channel's buffer, the result map and
\* the number of results received.
VARIABLES routines, ch, fetchResults, received

fetchVars == <<routines, ch, fetchResults, received>>

\* CachedClient: the cache directory's file for each code, the wall clock,
\* and for the Fetch call last made the number of calls it made to the
\* wrapped fetcher and what that fetcher returned.
VARIABLES cacheFiles, wallClock, fetcherCalls, fetched

cacheVars == <<cacheFiles, wallClock, fetcherCalls, fetched>>

components == <<storeVars, fetchVars, cacheVars>>

vars == <<phase, args, ret, components>>

(***************************************************************************)
(* Go's integer arithmetic: / truncates toward zero, % takes the sign of   *)
(* the dividend.                                                           *)
(***************************************************************************)
GoDiv(a, b) == IF a >= 0 THEN a \div b ELSE -((-a) \div b)

GoMod(a, b) == a - b * GoDiv(a, b)

Abs(x) == IF x < 0 THEN -x ELSE x

Max(a, b) == IF a >= b THEN a ELSE b

NoValue == [nil |-> TRUE]

\* A nil error, and an error with its message and what the message names.
NoError == [msg |-> "", code |-> <<>>, loc |-> ""]

Error(msg, code, loc) == [msg |-> msg, code |-> code, loc |-> loc]

(***************************************************************************)
(* strings.ToUpper on the characters the model uses.                       *)
(***************************************************************************)
UpperChar(c) ==
    CASE c = "s" -> "S" [] c = "f" -> "F" [] c = "o" -> "O"
      [] c = "j" -> "J" [] c = "k" -> "K" [] c = "x" -> "X"
      [] OTHER -> c

ToUpper(s) == [i \in 1..Len(s) |-> UpperChar(s[i])]

(***************************************************************************)
(* The code -> zone-name table (package codes), reduced to a fixture.  KBP *)
(* names a zone that the installed zone database does not have.            *)
(***************************************************************************)
IATA ==
    (<<"S", "F", "O">> :> "America/Los_Angeles") @@
    (<<"J", "F", "K">> :> "America/New_York") @@
    (<<"L", "O", "N">> :> "Europe/London") @@
    (<<"D", "E", "L">> :> "Asia/Kolkata") @@
    (<<"T", "Y", "O">> :> "Asia/Tokyo") @@
    (<<"Y", "Y", "T">> :> "America/St_Johns") @@
    (<<"P", "H", "X">> :> "America/Phoenix") @@
    (<<"L", "D", "H">> :> "Australia/Lord_Howe") @@
    (<<"H", "A", "V">> :> "America/Havana") @@
    (<<"K", "B", "P">> :> "Europe/Kyiv")

(***************************************************************************)
(* The zone database.  The year is scaled down: summer time lasts          *)
(* SeasonDays days, so that a window of MaxWindow days can hold both       *)
(* changes of a zone.  Each zone is its offset before the first change and *)
(* its changes in order: the instant and the offset from then on.          *)
(***************************************************************************)
MaxWindow == 2

SeasonDays == 3

SpringDay == MaxWindow + 4

FallDay == SpringDay + SeasonDays

At(day, hour, minute) == day * 86400 + hour * 3600 + minute * 60

ZoneData ==
    ("UTC" :> [base |-> 0, tx |-> <<>>]) @@
    ("America/Los_Angeles" :>
        [base |-> -28800,
         tx |-> << [when |-> At(SpringDay, 10, 0), offset |-> -25200],
                   [when |-> At(FallDay, 9, 0), offset |-> -28800] >>]) @@
    ("America/New_York" :>
        [base |-> -18000,
         tx |-> << [when |-> At(SpringDay, 7, 0), offset |-> -14400],
                   [when |-> At(FallDay, 6, 0), offset |-> -18000] >>]) @@
    ("America/St_Johns" :>
        [base |-> -12600,
         tx |-> << [when |-> At(SpringDay, 5, 30), offset |-> -9000],
                   [when |-> At(FallDay, 4, 30), offset |-> -12600] >>]) @@
    ("Europe/London" :>
        [base |-> 0,
         tx |-> << [when |-> At(SpringDay + 1, 1, 0), offset |-> 3600],
                   [when |-> At(FallDay - 1, 1, 0), offset |-> 0] >>]) @@
    ("Australia/Lord_Howe" :>
        [base |-> 39600,
         tx |-> << [when |-> At(SpringDay, 15, 0), offset |-> 37800],
                   [when |-> At(FallDay, 15, 30), offset |-> 39600] >>]) @@
    ("America/Havana" :>
        [base |-> -18000,
         tx |-> << [when |-> At(SpringDay, 5, 0), offset |-> -14400],
                   [when |-> At(FallDay, 5, 0), offset |-> -18000] >>]) @@
    ("America/Phoenix" :> [base |-> -25200, tx |-> <<>>]) @@
    ("Asia/Kolkata" :> [base |-> 19800, tx |-> <<>>]) @@
    ("Asia/Tokyo" :> [base |-> 32400, tx |-> <<>>])

\* time.LoadLocation succeeds exactly for the zones the database has.
CanLoad(locName) == locName \in DOMAIN ZoneData

Omega == 1000000 * 1000

\* The last change of tx[1..i] at or before sec, 0 when there is none.
RECURSIVE LastBefore(_, _, _)
LastBefore(tx, sec, i) ==
    IF i = 0 THEN 0
    ELSE IF tx[i].when <= sec THEN i
    ELSE LastBefore(tx, sec, i - 1)

\* The offset from change lo of zone z on (the base offset for lo = 0) and
\* the period [start, end) it is in force for.
Period(z, lo) ==
    [offset |-> IF lo = 0 THEN z.base ELSE z.tx[lo].offset,
     start |-> IF lo = 0 THEN -Omega ELSE z.tx[lo].when,
     end |-> IF lo = Len(z.tx) THEN Omega ELSE z.tx[lo + 1].when]

\* Location.lookup: the offset in force at sec and the period [start, end)
\* it is in force for.
Lookup(loc, sec) ==
    Period(ZoneData[loc],
           LastBefore(ZoneData[loc].tx, sec, Len(ZoneData[loc].tx)))

\* Time.Zone(): the offset of t's zone at t.
ZoneOffset(t) == Lookup(t.loc, t.unix).offset

\* Time.In(loc): the same instant read in another zone.
In(t, loc) == [unix |-> t.unix, loc |-> loc]

\* The wall-clock reading of t, in seconds since 00:00 of day 0.
Wall(t) == t.unix + ZoneOffset(t)

DayOf(t) == Wall(t) \div 86400

HourOf(t) == (Wall(t) % 86400) \div 3600

MinuteOf(t) == (Wall(t) % 3600) \div 60

\* The offset time.Date settles on: the one found for the wall-clock
\* reading when the instant utc it gives is in that period l, the one in
\* force at utc otherwise.
SettledOffset(utc, l, loc) ==
    IF utc < l.start \/ utc >= l.end THEN Lookup(loc, utc).offset
    ELSE l.offset

\* The instant of the wall-clock reading wall, l being the period found by
\* looking the reading up as if it were UTC.
Adjusted(wall, l, loc) ==
    [unix |-> IF l.offset = 0 THEN wall
              ELSE wall - SettledOffset(wall - l.offset, l, loc),
     loc |-> loc]

\* time.Date on a wall-clock reading in seconds.
DateOfWall(wall, loc) == Adjusted(wall, Lookup(loc, wall), loc)

\* time.Date(y, m, d, hour, min, 0, 0, loc): the wall-clock reading is
\* looked up as if it were UTC, and looked up again when the guess falls
\* outside the period found.
Date(day, hour, minute, loc) == DateOfWall(At(day, hour, minute), loc)

\* Time.AddDate(0, 0, days): Date on the shifted calendar day, same clock.
AddDate(t, days) == DateOfWall(Wall(t) + days * 86400, t.loc)

(***************************************************************************)
(* Work-hours overlap.                                                     *)
(***************************************************************************)
\* Mutant: the offset in force when the reference's UTC day began.
OffsetAtStartOfDay(refTime, locName) ==
    Lookup(locName, refTime.unix - (refTime.unix % 86400)).offset

\* refTime.In(loc).Zone(): the zone's offset at the reference instant.
OffsetAtReference(refTime, locName) == ZoneOffset(In(refTime, locName))

\* The loop over iatas: the locations resolved so far, or the error of the
\* first code that does not resolve.
RECURSIVE ResolveLocations(_, _, _, _)
ResolveLocations(iatas, i, refTime, locations) ==
    IF i > Len(iatas) THEN [locations |-> locations, err |-> NoError]
    ELSE LET iata == ToUpper(iatas[i]) IN
         IF iata \notin DOMAIN IATA
         THEN [locations |-> <<>>,
               err |-> Error("unknown IATA code", iata, "")]
         ELSE IF ~CanLoad(IATA[iata])
         THEN [locations |-> <<>>,
               err |-> Error("loading location", <<>>, IATA[iata])]
         ELSE ResolveLocations(iatas, i + 1, refTime,
                  Append(locations,
                         [IATA |-> iata,
                          LocName |-> IATA[iata],
                          Offset |->
                              OffsetAtReference(refTime, IATA[iata])]))

\* Mutant: a negative remainder left as it is.
LocalHourNoWrap(utcHour, offset) ==
    GoMod(utcHour + GoDiv(offset, 3600), 24)

LocalHour(utcHour, offset) ==
    LET localHour == GoMod(utcHour + GoDiv(offset, 3600), 24)
    IN  IF localHour < 0 THEN localHour + 24 ELSE localHour

\* Mutant: a window with Start >= End read as wrapping past midnight.
OutsideWorkHoursWrapping(localHour, workHours) ==
    IF workHours.Start < workHours.End
    THEN localHour < workHours.Start \/ localHour >= workHours.End
    ELSE localHour < workHours.Start /\ localHour >= workHours.End

\* Mutant: the end hour counted as a work hour.
OutsideWorkHoursEndInclusive(localHour, workHours) ==
    localHour < workHours.Start \/ localHour > workHours.End

OutsideWorkHours(localHour, workHours) ==
    localHour < workHours.Start \/ localHour >= workHours.End

\* Mutant: isOverlap as the last location leaves it.
IsOverlapOfLast(utcHour, locations, workHours) ==
    ~OutsideWorkHours(LocalHour(utcHour, locations[Len(locations)].Offset),
                      workHours)

\* The inner loop: no location is outside its work hours at utcHour.
IsOverlap(utcHour, locations, workHours) ==
    \A k \in 1..Len(locations) :
        ~OutsideWorkHours(LocalHour(utcHour, locations[k].Offset), workHours)

\* The outer loop, utcHour = from..23, appending to overlapHours.
RECURSIVE OverlapHours(_, _, _, _)
OverlapHours(from, locations, workHours, overlapHours) ==
    IF from >= 24 THEN overlapHours
    ELSE OverlapHours(from + 1, locations, workHours,
             IF IsOverlap(from, locations, workHours)
             THEN Append(overlapHours, from)
             ELSE overlapHours)

\* Mutant: the codes resolved before the count is checked.
FindOverlapCountLast(iatas, workHours, refTime) ==
    LET r == ResolveLocations(iatas, 1, refTime, <<>>) IN
    IF r.err # NoError THEN [result |-> NoValue, err |-> r.err]
    ELSE IF Len(iatas) < 2
    THEN [result |-> NoValue,
          err |-> Error("need at least 2 locations to find overlap",
                        <<>>, "")]
    ELSE [result |->
             [Locations |-> r.locations,
              OverlapHoursUTC |->
                  OverlapHours(0, r.locations, workHours, <<>>),
              WorkHours |-> workHours],
          err |-> NoError]

FindOverlap(iatas, workHours, refTime) ==
    IF Len(iatas) < 2
    THEN [result |-> NoValue,
          err |-> Error("need at least 2 locations to find overlap",
                        <<>>, "")]
    ELSE LET r == ResolveLocations(iatas, 1, refTime, <<>>) IN
         IF r.err # NoError THEN [result |-> NoValue, err |-> r.err]
         ELSE [result |->
                  [Locations |-> r.locations,
                   OverlapHoursUTC |->
                       OverlapHours(0, r.locations, workHours, <<>>),
                   WorkHours |-> workHours],
               err |-> NoError]

\* groupConsecutiveHours: the loop from index i with the open range
\* [start, prev].
RECURSIVE GroupFrom(_, _, _, _, _)
GroupFrom(hours, i, start, prev, ranges) ==
    IF i > Len(hours)
    THEN Append(ranges, [start |-> start, end |-> prev + 1])
    ELSE IF hours[i] # prev + 1
         THEN GroupFrom(hours, i + 1, hours[i], hours[i],
                  Append(ranges, [start |-> start, end |-> prev + 1]))
         ELSE GroupFrom(hours, i + 1, start, hours[i], ranges)

\* Mutant: a run ending at 23 joined to a run starting at 0.
groupMergingMidnight(hours) ==
    IF Len(hours) = 0 THEN <<>>
    ELSE LET r == GroupFrom(hours, 2, hours[1], hours[1], <<>>)
             n == Len(r)
         IN  IF n >= 2 /\ r[1].start = 0 /\ r[n].end = 24
             THEN SubSeq(r, 2, n - 1)
                      \o <<[start |-> r[n].start, end |-> r[1].end]>>
             ELSE r

groupConsecutiveHours(hours) ==
    IF Len(hours) = 0 THEN <<>>
    ELSE GroupFrom(hours, 2, hours[1], hours[1], <<>>)

(***************************************************************************)
(* Relative offset.  targetOffset and localOffset are what Zone() returns  *)
(* for t and for t.In(time.Local); the result is the format Sprintf is     *)
(* given and its operands (minutes is printed by the second format only).  *)
(***************************************************************************)
Formatted(sign, hours, minutes) ==
    IF minutes = 0
    THEN [format |-> "(%s%dh)", sign |-> sign, hours |-> hours, minutes |-> 0]
    ELSE [format |-> "(%s%dh%dm)", sign |-> sign, hours |-> hours,
          minutes |-> minutes]

\* Mutant: the sign taken from the hours alone.
RelativeOffsetSignFromHours(targetOffset, localOffset) ==
    LET diffSeconds == targetOffset - localOffset
        diffMinutes == GoDiv(diffSeconds, 60)
        hours == GoDiv(diffMinutes, 60)
        minutes == Abs(GoMod(diffMinutes, 60))
    IN  Formatted(IF hours < 0 THEN "-" ELSE "+", Abs(hours), minutes)

\* Mutant: flooring division and a non-negative remainder.
RelativeOffsetFloor(targetOffset, localOffset) ==
    LET diffSeconds == targetOffset - localOffset
        diffMinutes == diffSeconds \div 60
        hours == diffMinutes \div 60
        minutes == diffMinutes % 60
        negative == hours < 0 \/ (hours = 0 /\ diffSeconds < 0)
    IN  Formatted(IF negative THEN "-" ELSE "+", Abs(hours), minutes)

RelativeOffset(targetOffset, localOffset) ==
    LET diffSeconds == targetOffset - localOffset
        diffMinutes == GoDiv(diffSeconds, 60)
        hours == GoDiv(diffMinutes, 60)
        rem == GoMod(diffMinutes, 60)
        minutes == IF rem < 0 THEN -rem ELSE rem
        negative == hours < 0 \/ (hours = 0 /\ diffSeconds < 0)
    IN  Formatted(IF negative THEN "-" ELSE "+",
                  IF hours < 0 THEN -hours ELSE hours,
                  minutes)

(***************************************************************************)
(* Time specs.                                                             *)
(***************************************************************************)
Digits == {"0", "1", "2", "3", "4", "5", "6", "7", "8", "9"}

\* [A-Z] under (?i), on the letters the model uses.
Letters ==
    {"S", "F", "O", "X", "J", "K", "L", "N", "s", "f", "o", "x", "j", "k"}

DigitValue(c) ==
    CASE c = "0" -> 0 [] c = "1" -> 1 [] c = "2" -> 2 [] c = "3" -> 3
      [] c = "4" -> 4 [] c = "5" -> 5 [] c = "6" -> 6 [] c = "7" -> 7
      [] c = "8" -> 8 [] c = "9" -> 9

\* Sscanf("%d") of a string of decimal digits.
RECURSIVE ScanInt(_)
ScanInt(ds) ==
    IF ds = <<>> THEN 0
    ELSE 10 * ScanInt(SubSeq(ds, 1, Len(ds) - 1)) + DigitValue(ds[Len(ds)])

AllIn(q, S) == \A i \in 1..Len(q) : q[i] \in S

\* timeSpecRegex with (\d{1,2}) taking hourLen digits: three letters, "@",
\* the hour digits, then an optional ":" and, independently, an optional
\* pair of digits, up to the end of the string.  The submatches, or NoValue.
MatchWithHourLen(s, hourLen) ==
    IF Len(s) < 4 + hourLen THEN NoValue
    ELSE LET rest == SubSeq(s, 5 + hourLen, Len(s))
             afterColon == IF Len(rest) > 0 /\ rest[1] = ":"
                           THEN Tail(rest) ELSE rest
         IN  IF /\ AllIn(SubSeq(s, 1, 3), Letters)
                /\ s[4] = "@"
                /\ AllIn(SubSeq(s, 5, 4 + hourLen), Digits)
                /\ \/ Len(afterColon) = 0
                   \/ Len(afterColon) = 2 /\ AllIn(afterColon, Digits)
             THEN [code |-> SubSeq(s, 1, 3),
                   hour |-> SubSeq(s, 5, 4 + hourLen),
                   minute |-> afterColon]
             ELSE NoValue

\* FindStringSubmatch: the greedy \d{1,2} is tried with two digits first.
FindStringSubmatch(s) ==
    IF MatchWithHourLen(s, 2) # NoValue THEN MatchWithHourLen(s, 2)
    ELSE MatchWithHourLen(s, 1)

ParseTimeSpec(s) ==
    LET matches == FindStringSubmatch(s) IN
    IF matches = NoValue THEN NoValue
    ELSE LET iata == ToUpper(matches.code)
             hour == ScanInt(matches.hour)
             minute == IF matches.minute # <<>> THEN ScanInt(matches.minute)
                       ELSE 0
         IN  IF hour < 0 \/ hour > 23 THEN NoValue
             ELSE IF matches.minute # <<>> /\ (minute < 0 \/ minute > 59)
             THEN NoValue
             ELSE [IATA |-> iata, Hour |-> hour, Minute |-> minute]

\* The zero time.Time.
ZeroTime == [unix |-> -Omega, loc |-> "UTC"]

\* Mutant: the hour and minute placed on the date in UTC.
ResolveTimeInUTC(ts, ref) ==
    IF ts.IATA \notin DOMAIN IATA
    THEN [time |-> ZeroTime, err |-> Error("unknown IATA code", ts.IATA, "")]
    ELSE IF ~CanLoad(IATA[ts.IATA])
    THEN [time |-> ZeroTime,
          err |-> Error("loading location", <<>>, IATA[ts.IATA])]
    ELSE [time |-> In(Date(DayOf(In(ref, IATA[ts.IATA])), ts.Hour, ts.Minute,
                           "UTC"),
                      IATA[ts.IATA]),
          err |-> NoError]

ResolveTime(ts, ref) ==
    IF ts.IATA \notin DOMAIN IATA
    THEN [time |-> ZeroTime, err |-> Error("unknown IATA code", ts.IATA, "")]
    ELSE IF ~CanLoad(IATA[ts.IATA])
    THEN [time |-> ZeroTime,
          err |-> Error("loading location", <<>>, IATA[ts.IATA])]
    ELSE LET refInLoc == In(ref, IATA[ts.IATA])
         IN  [time |-> Date(DayOf(refInLoc), ts.Hour, ts.Minute,
                            IATA[ts.IATA]),
              err |-> NoError]

(***************************************************************************)
(* DST transition scan.                                                    *)
(***************************************************************************)
\* formatOffsetChange: the format Sprintf is given and its operands.
formatOffsetChange(diffSeconds) ==
    IF diffSeconds = 0
    THEN [format |-> "+0h", sign |-> "+", hours |-> 0, minutes |-> 0]
    ELSE LET sign == IF diffSeconds < 0 THEN "-" ELSE "+"
             magnitude == IF diffSeconds < 0 THEN -diffSeconds ELSE diffSeconds
             hours == GoDiv(magnitude, 3600)
             minutes == GoDiv(GoMod(magnitude, 3600), 60)
         IN  IF minutes = 0
             THEN [format |-> "%s%dh", sign |-> sign, hours |-> hours,
                   minutes |-> 0]
             ELSE [format |-> "%s%dh%dm", sign |-> sign, hours |-> hours,
                   minutes |-> minutes]

dstDescription(offsetDiff) ==
    IF offsetDiff > 0 THEN "DST starts" ELSE "DST ends"

\* The days until checkTime: diff is checkTime - t in seconds, and
\* Duration.Hours() / 24 and int(Duration.Hours()) are taken on it.
DaysUntil(diff) ==
    IF diff > 0
    THEN GoDiv(diff, 86400)
             + (IF GoMod(GoDiv(diff, 3600), 24) > 0 THEN 1 ELSE 0)
    ELSE -GoDiv(-diff, 86400)
             - (IF -diff > 0 /\ GoMod(GoDiv(-diff, 3600), 24) > 0
                THEN 1 ELSE 0)

\* Mutant: the previous hour built in UTC instead of the zone.
PrevHourInUTC(checkDay, hour, loc) ==
    IF hour = 0
    THEN Date(DayOf(AddDate(checkDay, -1)), 23, 0, "UTC")
    ELSE Date(DayOf(checkDay), hour - 1, 0, "UTC")

\* The previous wall-clock hour, built by its own time.Date.
PrevHour(checkDay, hour, loc) ==
    IF hour = 0
    THEN Date(DayOf(AddDate(checkDay, -1)), 23, 0, loc)
    ELSE Date(DayOf(checkDay), hour - 1, 0, loc)

TooFarNever(checkTime, t, windowDays) == FALSE

\* checkTime is further than the window from t.
TooFar(checkTime, t, windowDays) ==
    LET diff == checkTime.unix - t.unix
    IN  diff < -windowDays * 24 * 3600 \/ diff > windowDays * 24 * 3600

\* The last value of the loop variable day.
LastDay(windowDays) == windowDays * 2

\* checkTime of the loop body.
CheckTime(checkDay, hour, loc) == Date(DayOf(checkDay), hour, 0, loc)

\* The transition returned for checkTime.
DSTTransition(checkTime, daysUntil, offsetDiff) ==
    [Date |-> checkTime,
     DaysUntil |-> daysUntil,
     OffsetChange |-> formatOffsetChange(offsetDiff),
     Description |-> dstDescription(offsetDiff)]

\* The loop body returns at checkTime: it is not skipped, the offsets
\* differ and daysUntil is within the window.
ReturnsUpcoming(t, windowDays, checkTime, prevOffset, daysUntil) ==
    /\ ~TooFar(checkTime, t, windowDays)
    /\ prevOffset # ZoneOffset(checkTime)
    /\ daysUntil >= 0
    /\ daysUntil <= windowDays

Returns(t, windowDays, checkTime, prevOffset, daysUntil) ==
    /\ ~TooFar(checkTime, t, windowDays)
    /\ prevOffset # ZoneOffset(checkTime)
    /\ daysUntil >= -windowDays
    /\ daysUntil <= windowDays

\* The loop body at (checkDay, hour): the transition it returns, NoValue
\* when it goes on to the next hour.
CheckHour(t, windowDays, checkTime, prevOffset, daysUntil) ==
    IF Returns(t, windowDays, checkTime, prevOffset, daysUntil)
    THEN DSTTransition(checkTime, daysUntil,
                       ZoneOffset(checkTime) - prevOffset)
    ELSE NoValue

Check(t, windowDays, checkDay, hour) ==
    CheckHour(t, windowDays, CheckTime(checkDay, hour, t.loc),
              ZoneOffset(PrevHour(checkDay, hour, t.loc)),
              DaysUntil(CheckTime(checkDay, hour, t.loc).unix - t.unix))

\* The inner loop from hour on: the first transition met on checkDay, or
\* NoValue.
RECURSIVE ScanHours(_, _, _, _)
ScanHours(t, windowDays, checkDay, hour) ==
    IF hour >= 24 THEN NoValue
    ELSE IF Check(t, windowDays, checkDay, hour) # NoValue
    THEN Check(t, windowDays, checkDay, hour)
    ELSE ScanHours(t, windowDays, checkDay, hour + 1)

\* The outer loop from day on: the first transition met, or NoValue.
RECURSIVE ScanDays(_, _, _, _)
ScanDays(t, windowDays, startDay, day) ==
    IF day > LastDay(windowDays) THEN NoValue
    ELSE IF ScanHours(t, windowDays, AddDate(startDay, day), 0) # NoValue
    THEN ScanHours(t, windowDays, AddDate(startDay, day), 0)
    ELSE ScanDays(t, windowDays, startDay, day + 1)

FindDSTTransition(t, windowDays) ==
    IF t.loc = "UTC" THEN NoValue
    ELSE ScanDays(t, windowDays, AddDate(t, -windowDays), 0)

(***************************************************************************)
(* Looking a code up.                                                      *)
(***************************************************************************)
TimeResult(iata, time, location, found) ==
    [IATA |-> iata, Time |-> time, Location |-> location, Found |-> found]

\* Mutant: the table consulted with the code as written.
LookupTimeAsWritten(iata, now, clock) ==
    IF iata \notin DOMAIN IATA
    THEN TimeResult(ToUpper(iata), ZeroTime, "", FALSE)
    ELSE IF ~CanLoad(IATA[iata])
    THEN TimeResult(ToUpper(iata), ZeroTime, "", FALSE)
    ELSE TimeResult(ToUpper(iata),
                    In(IF now # NoValue THEN now ELSE clock, IATA[iata]),
                    IATA[iata], TRUE)

\* LookupTime(iata, now); clock is what time.Now() reads when now is nil.
LookupTime(iata, now, clock) ==
    IF ToUpper(iata) \notin DOMAIN IATA
    THEN TimeResult(ToUpper(iata), ZeroTime, "", FALSE)
    ELSE IF ~CanLoad(IATA[ToUpper(iata)])
    THEN TimeResult(ToUpper(iata), ZeroTime, "", FALSE)
    ELSE TimeResult(ToUpper(iata),
                    In(IF now # NoValue THEN now ELSE clock,
                       IATA[ToUpper(iata)]),
                    IATA[ToUpper(iata)], TRUE)

(***************************************************************************)
(* Converting a time.                                                      *)
(***************************************************************************)
\* ClockEmoji: the dial shown, one of the twelve of clocksLow or clocksHigh.
ClockEmoji(t) == [dial |-> HourOf(t) % 12, half |-> MinuteOf(t) > 30]

\* Time.Format(LayoutShort).
FormatShort(t) == <<HourOf(t), MinuteOf(t)>>

\* Time.Format of a date layout: the calendar day.
FormatDate(t) == DayOf(t)

\* The index of the first found result, 0 when none is found.
FirstFound(results) ==
    IF \A i \in 1..Len(results) : ~results[i].Found THEN 0
    ELSE CHOOSE i \in 1..Len(results) :
             /\ results[i].Found
             /\ \A j \in 1..(i - 1) : ~results[j].Found

datesDiffer(results) ==
    \E i \in 1..Len(results) :
        /\ results[i].Found
        /\ FormatDate(results[i].Time) #
               FormatDate(results[FirstFound(results)].Time)

\* The text written for one result, as its format and operands.
UnknownLine(iata) == [format |-> "%s: Unknown airport code\n", IATA |-> iata]

PlaceholderPart(format, r) == [format |-> format, IATA |-> r.IATA]

ShortPart(r) ==
    [format |-> "%s %s", IATA |-> r.IATA, time |-> FormatShort(r.Time)]

FullPart(r, showDate) ==
    IF showDate
    THEN [format |-> "%s: %s %s %s", IATA |-> r.IATA,
          emoji |-> ClockEmoji(r.Time), time |-> FormatShort(r.Time),
          date |-> FormatDate(r.Time)]
    ELSE [format |-> "%s: %s %s", IATA |-> r.IATA,
          emoji |-> ClockEmoji(r.Time), time |-> FormatShort(r.Time)]

\* The full format, showDate being what datesDiffer found.
FormatFull(c, showDate) ==
    [source |-> FullPart(c.Source, showDate),
     targets |-> [i \in 1..Len(c.Targets) |->
                     IF c.Targets[i].Found
                     THEN FullPart(c.Targets[i], showDate)
                     ELSE PlaceholderPart("%s: ??:??", c.Targets[i])]]

\* FormatConversion: the source's text and the targets' texts in order.
FormatConversion(c, ps1Format) ==
    IF ~c.Source.Found THEN UnknownLine(c.Source.IATA)
    ELSE IF ps1Format
    THEN [source |-> ShortPart(c.Source),
          targets |-> [i \in 1..Len(c.Targets) |->
                          IF c.Targets[i].Found
                          THEN ShortPart(c.Targets[i])
                          ELSE PlaceholderPart("%s ??:??", c.Targets[i])]]
    ELSE FormatFull(c, datesDiffer(<<c.Source>> \o c.Targets))

ConversionResult(source, targets) == [Source |-> source, Targets |-> targets]

\* Mutant: every target looked up at the reference instant.
TargetResultsAtReference(targets, sourceTime, refTime) ==
    [i \in 1..Len(targets) |-> LookupTime(targets[i], refTime, refTime)]

\* The loop over the targets; refTime is what time.Now() would read.
TargetResults(targets, sourceTime, refTime) ==
    [i \in 1..Len(targets) |-> LookupTime(targets[i], sourceTime, refTime)]

\* ShowConversion once the source is resolved: the result built and the
\* text written.
Converted(sourceSpec, targets, ps1Format, refTime, resolved) ==
    IF resolved.err # NoError
    THEN [result |-> NoValue, out |-> UnknownLine(sourceSpec.IATA)]
    ELSE [result |->
              ConversionResult(
                  TimeResult(sourceSpec.IATA, resolved.time,
                             IATA[sourceSpec.IATA], TRUE),
                  TargetResults(targets, resolved.time, refTime)),
          out |->
              FormatConversion(
                  ConversionResult(
                      TimeResult(sourceSpec.IATA, resolved.time,
                                 IATA[sourceSpec.IATA], TRUE),
                      TargetResults(targets, resolved.time, refTime)),
                  ps1Format)]

\* ShowConversion; clock is what time.Now() reads when now is nil.
ShowConversion(sourceSpec, targets, ps1Format, now, clock) ==
    Converted(sourceSpec, targets, ps1Format,
              IF now # NoValue THEN now ELSE clock,
              ResolveTime(sourceSpec, IF now # NoValue THEN now ELSE clock))

(***************************************************************************)
(* Parsing a work-hours window.                                            *)
(***************************************************************************)
\* The first position from pos on that holds no space.
RECURSIVE SkipSpace(_, _)
SkipSpace(s, pos) ==
    IF pos <= Len(s) /\ s[pos] = " " THEN SkipSpace(s, pos + 1) ELSE pos

\* The position after an optional sign at pos.
AfterSign(s, pos) ==
    IF pos <= Len(s) /\ s[pos] \in {"+", "-"} THEN pos + 1 ELSE pos

\* The first position from pos on that holds no digit.
RECURSIVE DigitsEnd(_, _)
DigitsEnd(s, pos) ==
    IF pos <= Len(s) /\ s[pos] \in Digits THEN DigitsEnd(s, pos + 1)
    ELSE pos

\* The number whose sign, if any, is at start and whose digits are
\* s[digitsFrom..end-1]; it fails when there is no digit.
Token(s, start, digitsFrom, end) ==
    [ok |-> end > digitsFrom,
     value |-> IF end <= digitsFrom THEN 0
               ELSE IF digitsFrom > start /\ s[start] = "-"
               THEN -ScanInt(SubSeq(s, digitsFrom, end - 1))
               ELSE ScanInt(SubSeq(s, digitsFrom, end - 1)),
     next |-> end]

SignedToken(s, start, digitsFrom) ==
    Token(s, start, digitsFrom, DigitsEnd(s, digitsFrom))

\* The verb %d at pos: spaces are skipped, a sign is accepted, and the
\* digits are taken as far as they go.
ScanNumber(s, pos) ==
    SignedToken(s, SkipSpace(s, pos), AfterSign(s, SkipSpace(s, pos)))

\* fmt.Sscanf from item k of the format and position pos of the input on:
\* the values stored.  Scanning stops at the first item that does not
\* match; input left over after the last item is not looked at.
RECURSIVE Scan(_, _, _, _, _)
RECURSIVE ScanVerb(_, _, _, _, _)
ScanVerb(s, format, k, vals, tok) ==
    IF tok.ok THEN Scan(s, tok.next, format, k + 1, Append(vals, tok.value))
    ELSE vals

Scan(s, pos, format, k, vals) ==
    IF k > Len(format) THEN vals
    ELSE IF format[k] = "%d"
    THEN ScanVerb(s, format, k, vals, ScanNumber(s, pos))
    ELSE IF pos <= Len(s) /\ s[pos] = format[k]
    THEN Scan(s, pos + 1, format, k + 1, vals)
    ELSE vals

Sscanf(s, format) == Scan(s, 1, format, 1, <<>>)

\* "%d:%d-%d:%d" and "%d-%d"
FormatWithMinutes == <<"%d", ":", "%d", "-", "%d", ":", "%d">>

FormatHoursOnly == <<"%d", "-", "%d">>

HoursOutOfRange(startH, endH) ==
    startH < 0 \/ startH > 23 \/ endH < 0 \/ endH > 24

MinutesOutOfRange(startM, endM) ==
    startM < 0 \/ startM > 59 \/ endM < 0 \/ endM > 59

\* ParseWorkHours on what the two Sscanf calls stored.
Parsed(withMinutes, hoursOnly) ==
    IF Len(withMinutes) = 4
    THEN IF HoursOutOfRange(withMinutes[1], withMinutes[3]) THEN NoValue
         ELSE IF MinutesOutOfRange(withMinutes[2], withMinutes[4])
         THEN NoValue
         ELSE [Start |-> withMinutes[1], End |-> withMinutes[3]]
    ELSE IF Len(hoursOnly) = 2
    THEN IF HoursOutOfRange(hoursOnly[1], hoursOnly[2]) THEN NoValue
         ELSE [Start |-> hoursOnly[1], End |-> hoursOnly[2]]
    ELSE NoValue

ParseWorkHours(s) ==
    Parsed(Sscanf(s, FormatWithMinutes), Sscanf(s, FormatHoursOnly))

(***************************************************************************)
(* Writing the overlap.                                                    *)
(***************************************************************************)
\* Mutant: the hour left as it is when it reaches 24.
RangeLocalUpTo24(hour, offset) ==
    IF hour + GoDiv(offset, 3600) = 24 THEN 24
    ELSE IF GoMod(hour + GoDiv(offset, 3600), 24) < 0
    THEN GoMod(hour + GoDiv(offset, 3600), 24) + 24
    ELSE GoMod(hour + GoDiv(offset, 3600), 24)

\* startLocal and endLocal of FormatOverlap.
RangeLocal(hour, offset) ==
    IF GoMod(hour + GoDiv(offset, 3600), 24) < 0
    THEN GoMod(hour + GoDiv(offset, 3600), 24) + 24
    ELSE GoMod(hour + GoDiv(offset, 3600), 24)

\* One range in one location's time: "%02d:00-%02d:00 %s".
RangePart(r, loc) ==
    [startLocal |-> RangeLocal(r.start, loc.Offset),
     endLocal |-> RangeLocal(r.end, loc.Offset),
     IATA |-> loc.IATA]

\* The line of one range: its parts joined by " = ".
RangeLine(r, locations) ==
    [line |-> "range",
     parts |-> [k \in 1..Len(locations) |-> RangePart(r, locations[k])]]

RangeLines(ranges, locations) ==
    [i \in 1..Len(ranges) |-> RangeLine(ranges[i], locations)]

TotalLine(hours) ==
    IF hours = 1 THEN [line |-> "  (1 hour overlap)\n", hours |-> 1]
    ELSE [line |-> "  (%d hours overlap)\n", hours |-> hours]

\* FormatOverlap: the header's operands and the lines after it.
FormatOverlap(result) ==
    [Start |-> result.WorkHours.Start,
     End |-> result.WorkHours.End,
     lines |->
         IF Len(result.OverlapHoursUTC) = 0
         THEN <<[line |-> "  No overlapping hours found\n"]>>
         ELSE Append(RangeLines(groupConsecutiveHours(result.OverlapHoursUTC),
                                result.Locations),
                     TotalLine(Len(result.OverlapHoursUTC)))]

\* What ShowOverlap writes for what FindOverlap returned.
Shown(found) ==
    IF found.err # NoError
    THEN [error |-> found.err, out |-> NoValue]
    ELSE [error |-> NoError, out |-> FormatOverlap(found.result)]

\* ShowOverlap; clock is what time.Now() reads when now is nil.
ShowOverlap(iatas, workHours, now, clock) ==
    Shown(FindOverlap(iatas, workHours,
                      IF now # NoValue THEN now ELSE clock))

(***************************************************************************)
(* The alias store (package config).  A store is its in-memory map from    *)
(* names to code lists; the file at its path is absent or holds bytes.     *)
(* Maps are functions on the set of their keys.                            *)
(***************************************************************************)
EmptyMap == [k \in {} |-> <<>>]

Put(m, key, value) ==
    [k \in DOMAIN m \cup {key} |-> IF k = key THEN value ELSE m[k]]

Remove(m, key) == [k \in DOMAIN m \ {key} |-> m[k]]

\* strings.ToLower on the characters the model uses.
LowerChar(c) ==
    CASE c = "E" -> "e" [] c = "U" -> "u" [] c = "S" -> "s"
      [] OTHER -> c

ToLower(s) == [i \in 1..Len(s) |-> LowerChar(s[i])]

\* The byte of a character, for the order in which encoding/json writes
\* the keys of a map.
Byte(c) ==
    CASE c = "E" -> 69 [] c = "S" -> 83 [] c = "U" -> 85
      [] c = "e" -> 101 [] c = "s" -> 115 [] c = "u" -> 117
      [] OTHER -> 0

RECURSIVE Less(_, _)
Less(a, b) ==
    IF b = <<>> THEN FALSE
    ELSE IF a = <<>> THEN TRUE
    ELSE IF Byte(Head(a)) # Byte(Head(b))
         THEN Byte(Head(a)) < Byte(Head(b))
    ELSE Less(Tail(a), Tail(b))

FirstKey(keys) == CHOOSE k \in keys : \A o \in keys \ {k} : Less(k, o)

RECURSIVE Members(_, _)
Members(m, keys) ==
    IF keys = {} THEN <<>>
    ELSE <<[key |-> FirstKey(keys), value |-> m[FirstKey(keys)]]>>
         \o Members(m, keys \ {FirstKey(keys)})

\* The bytes of a file: nothing, a JSON object with its members in the
\* order written, or the beginning of one.
ZeroLength == [json |-> "", members |-> <<>>]

Truncated == [json |-> "truncated", members |-> <<>>]

MarshalIndent(m) == [json |-> "object", members |-> Members(m, DOMAIN m)]

RECURSIVE Decoded(_, _)
Decoded(members, into) ==
    IF members = <<>> THEN into
    ELSE Decoded(Tail(members),
                 Put(into, Head(members).key, Head(members).value))

Unmarshal(data, into) ==
    IF data.json = "object"
    THEN [aliases |-> Decoded(data.members, into), err |-> NoError]
    ELSE [aliases |-> into,
          err |-> Error("unexpected end of JSON input", <<>>, "")]

\* The file is NoValue when it does not exist.
load(memory, file) ==
    IF file = NoValue
    THEN [aliases |-> memory, err |-> Error("file does not exist", <<>>, "")]
    ELSE IF file = ZeroLength THEN [aliases |-> memory, err |-> NoError]
    ELSE Unmarshal(file, memory)

Opened(loaded) ==
    IF loaded.err # NoError /\ loaded.err.msg # "file does not exist"
    THEN [aliases |-> NoValue,
          err |-> Error("loading aliases", <<>>, loaded.err.msg)]
    ELSE [aliases |-> loaded.aliases, err |-> NoError]

NewAliasStoreWithPath(file) == Opened(load(EmptyMap, file))

\* What save leaves in the file, and what it returns, when the operating
\* system answers io: "ok", "mkdir" (MkdirAll fails) or "write" (WriteFile
\* fails after truncating the file).
saveKeepsFile(memory, file, io) == file

save(memory, file, io) ==
    CASE io = "ok" -> MarshalIndent(memory)
      [] io = "write" -> Truncated
      [] OTHER -> file

saveError(io) ==
    CASE io = "ok" -> NoError
      [] io = "mkdir" -> Error("creating config directory", <<>>, "")
      [] OTHER -> Error("writing aliases file", <<>>, "")

Normalized(codes) == [i \in 1..Len(codes) |-> ToUpper(codes[i])]

\* Save and Delete: the memory and the file they leave and the error they
\* return.
Save(memory, file, name, codes, io) ==
    IF ToLower(name) = <<>>
    THEN [aliases |-> memory, file |-> file,
          err |-> Error("alias name cannot be empty", <<>>, "")]
    ELSE IF Len(codes) = 0
    THEN [aliases |-> memory, file |-> file,
          err |-> Error("alias must have at least one code", <<>>, "")]
    ELSE [aliases |-> Put(memory, ToLower(name), Normalized(codes)),
          file |-> save(Put(memory, ToLower(name), Normalized(codes)),
                        file, io),
          err |-> saveError(io)]

Delete(memory, file, name, io) ==
    IF ToLower(name) \notin DOMAIN memory
    THEN [aliases |-> memory, file |-> file,
          err |-> Error("alias not found", ToLower(name), "")]
    ELSE [aliases |-> Remove(memory, ToLower(name)),
          file |-> save(Remove(memory, ToLower(name)), file, io),
          err |-> saveError(io)]

Get(memory, name) ==
    IF ToLower(name) \in DOMAIN memory THEN memory[ToLower(name)]
    ELSE NoValue

(***************************************************************************)
(* Weather (package weather).  An Info is what a fetch returns; a fetch    *)
(* that fails or times out returns the zero Info.                          *)
(***************************************************************************)
Info(condition, temp, found) ==
    [Condition |-> condition, Temp |-> temp, Found |-> found]

NotFound == Info("", "", FALSE)

\* What the service reports for a code when the fetch succeeds.
Observed(code) ==
    IF code = <<"S", "F", "O">> THEN Info("sun", "+20", TRUE)
    ELSE Info("rain", "+12", TRUE)

FetchOutcomes(code) == {Observed(code), NotFound}

\* FetchAll: the channel's capacity, and a goroutine as started.
CapacityOfOne(iatas) == 1

Capacity(iatas) == Len(iatas)

Started(iata) == [pc |-> "fetch", code |-> ToUpper(iata), info |-> NoValue]

(***************************************************************************)
(* The weather cache (package weather).  The clock counts ticks, of which  *)
(* TicksPerHour make an hour.  A cache file is absent (NoValue), holds     *)
(* bytes that json.Unmarshal rejects, or holds an entry.                   *)
(***************************************************************************)
TicksPerHour == 2

CacheTTL == 1 * TicksPerHour

Garbled == [garbled |-> TRUE]

CacheEntry(condition, temp, fetchedAt) ==
    [Condition |-> condition, Temp |-> temp, FetchedAt |-> fetchedAt]

\* time.Since(entry.FetchedAt) > CacheTTL.
ExpiredAtTTL(age) == age >= CacheTTL

Expired(age) == age > CacheTTL

Miss == [info |-> NotFound, ok |-> FALSE]

CacheGet(files, now, iata) ==
    IF files[ToUpper(iata)] = NoValue THEN Miss
    ELSE IF files[ToUpper(iata)] = Garbled THEN Miss
    ELSE IF Expired(now - files[ToUpper(iata)].FetchedAt) THEN Miss
    ELSE [info |-> Info(files[ToUpper(iata)].Condition,
                        files[ToUpper(iata)].Temp, TRUE),
          ok |-> TRUE]

\* The files after Set when the operating system answers io: "ok", "open"
\* (WriteFile fails before writing) or "write" (it fails after truncating).
CacheSet(files, now, iata, info, io) ==
    IF ~info.Found THEN files
    ELSE CASE io = "ok" ->
                [files EXCEPT ![ToUpper(iata)] =
                     CacheEntry(info.Condition, info.Temp, now)]
           [] io = "write" -> [files EXCEPT ![ToUpper(iata)] = Garbled]
           [] OTHER -> files

\* CachedClient.Fetch at time now, the wrapped fetcher returning outcome
\* after elapsed ticks when it is called: the Info returned, the files and
\* the time afterwards, and the calls made to the wrapped fetcher.
CachedFetch(files, now, iata, outcome, elapsed, io) ==
    IF CacheGet(files, now, ToUpper(iata)).ok
    THEN [info |-> CacheGet(files, now, ToUpper(iata)).info,
          files |-> files, now |-> now, calls |-> 0, fetched |-> NoValue]
    ELSE [info |-> outcome,
          files |-> CacheSet(files, now + elapsed, ToUpper(iata), outcome, io),
          now |-> now + elapsed, calls |-> 1, fetched |-> outcome]

(***************************************************************************)
(* The arguments the specifications draw.                                  *)
(***************************************************************************)
MaxCodes == 3

MaxHours == 3

SFO == <<"S", "F", "O">>

jfk == <<"j", "f", "k">>

LON == <<"L", "O", "N">>

CodeInputs ==
    {SFO, jfk, LON, <<"D", "E", "L">>, <<"Y", "Y", "T">>,
     <<"T", "Y", "O">>, <<"X", "X", "X">>, <<"K", "B", "P">>}

AllWorkHours == [Start : 0..23, End : 0..24]

DefaultWorkHours == [Start |-> 9, End |-> 17]

SomeWorkHours ==
    {DefaultWorkHours, [Start |-> 8, End |-> 18], [Start |-> 7, End |-> 19],
     [Start |-> 0, End |-> 24], [Start |-> 10, End |-> 24],
     [Start |-> 22, End |-> 6], [Start |-> 12, End |-> 12]}

UTCTime(day, hour, minute) == [unix |-> At(day, hour, minute), loc |-> "UTC"]

\* A winter instant, one between the American and the European change to
\* summer time, and a summer instant.
WinterRef == UTCTime(1, 12, 0)

RefTimes == {WinterRef, UTCTime(SpringDay, 12, 0), UTCTime(SpringDay + 2, 12, 0)}

\* Every window for up to two codes, the common windows for longer lists.
OverlapArgs(a) ==
    \E n \in 0..MaxCodes :
        \E l \in [1..n -> CodeInputs], t \in RefTimes :
            \E w \in IF n <= 2 THEN AllWorkHours ELSE SomeWorkHours :
                a = [op |-> "FindOverlap", iatas |-> l, workHours |-> w,
                     refTime |-> t]

\* The elements of a set of hours in ascending order.
SortedSeq(S) ==
    [i \in 1..Cardinality(S) |->
        CHOOSE x \in S : Cardinality({y \in S : y < x}) = i - 1]

\* Strictly ascending hour lists: the short ones over all 24 hours, every
\* one over a few runs of hours, and the whole day.
GroupArgs(a) ==
    \/ \E n \in 0..MaxHours :
           \E h \in [1..n -> 0..23] :
               /\ \A i \in 1..(n - 1) : h[i] < h[i + 1]
               /\ a = [op |-> "groupConsecutiveHours", hours |-> h]
    \/ \E S \in SUBSET {0, 1, 2, 9, 10, 11, 12, 14, 15, 16, 22, 23} :
           a = [op |-> "groupConsecutiveHours", hours |-> SortedSeq(S)]
    \/ a = [op |-> "groupConsecutiveHours", hours |-> SortedSeq(0..23)]

MaxQuarters == 56

\* Offsets in seconds: the quarter hours up to MaxQuarters, and offsets
\* that are not whole minutes or lie within an hour of zero.
Offsets ==
    {q * 900 : q \in (-MaxQuarters)..MaxQuarters}
        \cup {-3601, -3599, -2670, -61, -60, -59, -30, -1,
              1, 30, 59, 60, 61, 1172, 3599, 3601}

RelativeOffsetArgs(a) ==
    \E target \in Offsets, local \in Offsets :
        a = [op |-> "RelativeOffset", targetOffset |-> target,
             localOffset |-> local]

MaxDigits == 2

HourDigits == {"0", "2", "3", "4", "9"}

MinuteDigits == {"0", "5", "6", "9"}

\* Strings around the shape CODE@H[:MM]: a code of two to four characters,
\* a separator, up to MaxDigits hour digits, a colon or none, up to
\* MaxDigits minute digits, and a trailing character or none.
ParseTimeSpecArgs(a) ==
    \E code \in {SFO, <<"s", "f", "o">>, <<"S", "F">>, <<"S", "F", "O", "X">>,
                 <<"9", "F", "O">>, <<>>},
       at \in {<<"@">>, <<"#">>, <<>>},
       colon \in {<<":">>, <<>>},
       trail \in {<<"x">>, <<>>} :
        \E nh \in 0..MaxDigits, nm \in 0..MaxDigits :
            \E h \in [1..nh -> HourDigits], m \in [1..nm -> MinuteDigits] :
                /\ (code \notin {SFO, <<"s", "f", "o">>} \/ at # <<"@">>)
                       => (nh <= 1 /\ nm \in {0, 2} /\ trail = <<>>)
                /\ a = [op |-> "ParseTimeSpec",
                        s |-> code \o at \o h \o colon \o m \o trail]

Minutes == {0, 1, 15, 29, 30, 31, 45, 59}

\* Reference instants early, in the middle and late in each UTC day from
\* the day before the first change to the day after the last.
ResolveRefTimes ==
    {UTCTime(day, hm[1], hm[2]) :
        day \in (SpringDay - 1)..(FallDay + 1),
        hm \in {<<0, 30>>, <<12, 0>>, <<23, 30>>}}

ResolveTimeArgs(a) ==
    \E code \in {SFO, LON, <<"D", "E", "L">>, <<"Y", "Y", "T">>,
                 <<"L", "D", "H">>, <<"H", "A", "V">>, <<"X", "X", "X">>,
                 <<"K", "B", "P">>},
       hour \in 0..23, minute \in Minutes, ref \in ResolveRefTimes :
        a = [op |-> "ResolveTime",
             ts |-> [IATA |-> code, Hour |-> hour, Minute |-> minute],
             ref |-> ref]

\* The times of day, in seconds of the UTC day, a reference instant is
\* drawn at: midnight, noon and the half hours around the times of day of
\* the zone's changes.
Readings(loc) ==
    LET tx == ZoneData[loc].tx
    IN  {0, 43200} \cup
        {(tx[i].when + d) % 86400 :
            i \in DOMAIN tx, d \in {-3600, -1800, 0, 1800, 3600, 5400}}

\* Instants from before the first change can enter a window to after the
\* last has left it, in every zone of the database, and the windows of
\* 0..MaxWindow days.
FindDSTTransitionArgs(a) ==
    \E loc \in DOMAIN ZoneData,
       day \in (SpringDay - MaxWindow - 1)..(FallDay + MaxWindow + 1),
       windowDays \in 0..MaxWindow :
        \E reading \in Readings(loc) :
            a = [op |-> "FindDSTTransition",
                 t |-> [unix |-> day * 86400 + reading, loc |-> loc],
                 windowDays |-> windowDays]

\* Strings given as codes: codes of the table in either case, a code whose
\* zone does not load, codes not in the table, and strings of other lengths.
LookupInputs ==
    CodeInputs \cup
    {<<"s", "f", "o">>, <<"S", "f", "O">>, <<"x", "x", "x">>, <<>>,
     <<"S", "F">>, <<"S", "F", "O", "X">>, <<"k", "b", "p">>}

\* Instants given as now, in UTC and in zones of the database, and nil.
NowInputs ==
    {NoValue} \cup RefTimes \cup
    {In(r, loc) : r \in RefTimes,
                  loc \in {"America/Los_Angeles", "Asia/Kolkata"}}

LookupTimeArgs(a) ==
    \E iata \in LookupInputs, now \in NowInputs,
       clock \in {UTCTime(2, 3, 4), UTCTime(FallDay, 23, 59)} :
        a = [op |-> "LookupTime", iata |-> iata, now |-> now,
             clock |-> clock]

\* Time specs with a resolvable code, an unknown one, one whose zone does
\* not load and one in lower case; up to MaxCodes targets; both formats.
ShowConversionArgs(a) ==
    \E code \in {SFO, LON, <<"D", "E", "L">>, <<"X", "X", "X">>,
                 <<"K", "B", "P">>, <<"s", "f", "o">>},
       hour \in {9, 23}, minute \in {0, 31},
       n \in 0..MaxCodes, ps1Format \in BOOLEAN,
       now \in {NoValue, WinterRef, UTCTime(SpringDay + 2, 12, 0)} :
        \E targets \in [1..n -> {jfk, LON, <<"T", "Y", "O">>,
                                 <<"X", "X", "X">>, <<"K", "B", "P">>}] :
            a = [op |-> "ShowConversion",
                 sourceSpec |-> [IATA |-> code, Hour |-> hour,
                                 Minute |-> minute],
                 targets |-> targets, ps1Format |-> ps1Format, now |-> now,
                 clock |-> UTCTime(FallDay, 23, 59)]

\* Strings around the forms H-H and H:MM-H:MM: a start and an end, each a
\* number or nothing, with or without a colon and minutes, a dash or none
\* between them, and trailing text or none.
StartTexts ==
    {<<"8">>, <<"9">>, <<"0">>, <<"2", "3">>, <<"2", "4">>, <<"2", "5">>,
     <<"-", "1">>, <<"+", "9">>, <<" ", "9">>, <<"0", "0", "9">>, <<>>}

EndTexts ==
    {<<"1", "7">>, <<"1", "8">>, <<"0">>, <<"2", "4">>, <<"2", "5">>,
     <<"-", "1">>, <<"x">>, <<>>}

MinuteTexts ==
    {<<>>, <<":">>, <<":", "0", "0">>, <<":", "3", "0">>, <<":", "5", "9">>,
     <<":", "6", "0">>, <<":", "5">>}

ParseWorkHoursArgs(a) ==
    \E start \in StartTexts, startM \in MinuteTexts, dash \in {<<"-">>, <<>>},
       end \in EndTexts, endM \in MinuteTexts,
       trail \in {<<>>, <<"x">>, <<" ">>, <<"-", "1">>} :
        a = [op |-> "ParseWorkHours",
             s |-> start \o startM \o dash \o end \o endM \o trail]

\* Lists of one to MaxCodes codes, the common windows, and a reference
\* given or read from the clock.
ShowOverlapArgs(a) ==
    \E n \in 1..MaxCodes, workHours \in SomeWorkHours,
       now \in RefTimes \cup {NoValue} :
        \E iatas \in [1..n -> CodeInputs] :
            a = [op |-> "ShowOverlap", iatas |-> iatas,
                 workHours |-> workHours, now |-> now,
                 clock |-> UTCTime(FallDay + 1, 23, 59)]

\* The names, code lists and operating-system answers the alias store is
\* called with, and the files it is first opened on.
NameInputs == {<<"e", "u">>, <<"E", "U">>, <<"U", "s">>, <<>>}

CodeLists == {<<jfk>>, <<SFO, jfk>>, <<>>}

IOAnswers == {"ok", "mkdir", "write"}

InitialFiles ==
    {NoValue, ZeroLength, MarshalIndent(Put(EmptyMap, <<"u", "s">>, <<LON>>))}

\* The code lists FetchAll is called with.
MaxFetches == 3

FetchInputs == {SFO, <<"s", "f", "o">>, jfk}

FetchAllArgs(a) ==
    \E n \in 0..MaxFetches :
        \E iatas \in [1..n -> FetchInputs] :
            a = [op |-> "FetchAll", iatas |-> iatas]

\* The cached client: how long the clock runs, the codes with a cache
\* file, what the wrapped fetcher may return and how WriteFile may answer.
MaxTicks == 4

CachedCodes == {ToUpper(c) : c \in FetchInputs}

CachedOutcomes(code) == FetchOutcomes(code) \cup {Info("cloud", "+15", TRUE)}

WriteAnswers == {"ok", "open", "write"}

\* Further reference instants: other times of the days of RefTimes, on
\* either side of the changes between them.
OtherRefTimes ==
    RefTimes \cup {UTCTime(1, 0, 30), UTCTime(SpringDay, 9, 0),
                   UTCTime(SpringDay + 2, 23, 0), UTCTime(FallDay + 2, 12, 0)}

\* Windows inside one another, at either end of the day, and windows with
\* Start >= End.
CommonWorkHours ==
    SomeWorkHours \cup {[Start |-> 9, End |-> 12], [Start |-> 13, End |-> 17],
                        [Start |-> 0, End |-> 1], [Start |-> 23, End |-> 24],
                        [Start |-> 6, End |-> 22]}

\* Lists of two or more codes with the common windows.
OverlapCommonArgs(a) ==
    \E n \in 2..MaxCodes :
        \E l \in [1..n -> CodeInputs], t \in RefTimes, w \in CommonWorkHours :
            a = [op |-> "FindOverlap", iatas |-> l, workHours |-> w,
                 refTime |-> t]

(***************************************************************************)
(* The specifications.                                                     *)
(***************************************************************************)
\* The pure operations leave the stateful components alone: no store is
\* open.
StoreIdle ==
    /\ aliases = NoValue
    /\ disk = NoValue
    /\ reopened = NoValue
    /\ latest = NoValue
    /\ failed = FALSE

FetchIdle ==
    /\ routines = NoValue
    /\ ch = NoValue
    /\ fetchResults = NoValue
    /\ received = NoValue

CacheIdle ==
    /\ cacheFiles = NoValue
    /\ wallClock = NoValue
    /\ fetcherCalls = 0
    /\ fetched = NoValue

Idle == StoreIdle /\ FetchIdle /\ CacheIdle

FindOverlapStep ==
    /\ phase = "call"
    /\ args.op = "FindOverlap"
    /\ ret' = FindOverlap(args.iatas, args.workHours, args.refTime)
    /\ phase' = "done"
    /\ UNCHANGED <<args, components>>

GroupStep ==
    /\ phase = "call"
    /\ args.op = "groupConsecutiveHours"
    /\ ret' = groupConsecutiveHours(args.hours)
    /\ phase' = "done"
    /\ UNCHANGED <<args, components>>

InitOverlap == phase = "call" /\ ret = NoValue /\ OverlapArgs(args) /\ Idle

SpecOverlap == InitOverlap /\ [][FindOverlapStep]_vars

InitGroup == phase = "call" /\ ret = NoValue /\ GroupArgs(args) /\ Idle

SpecGroup == InitGroup /\ [][GroupStep]_vars

RelativeOffsetStep ==
    /\ phase = "call"
    /\ args.op = "RelativeOffset"
    /\ ret' = RelativeOffset(args.targetOffset, args.localOffset)
    /\ phase' = "done"
    /\ UNCHANGED <<args, components>>

InitRelativeOffset ==
    phase = "call" /\ ret = NoValue /\ RelativeOffsetArgs(args) /\ Idle

SpecRelativeOffset == InitRelativeOffset /\ [][RelativeOffsetStep]_vars

ParseTimeSpecStep ==
    /\ phase = "call"
    /\ args.op = "ParseTimeSpec"
    /\ ret' = ParseTimeSpec(args.s)
    /\ phase' = "done"
    /\ UNCHANGED <<args, components>>

InitParseTimeSpec ==
    phase = "call" /\ ret = NoValue /\ ParseTimeSpecArgs(args) /\ Idle

SpecParseTimeSpec == InitParseTimeSpec /\ [][ParseTimeSpecStep]_vars

ResolveTimeStep ==
    /\ phase = "call"
    /\ args.op = "ResolveTime"
    /\ ret' = ResolveTime(args.ts, args.ref)
    /\ phase' = "done"
    /\ UNCHANGED <<args, components>>

InitResolveTime ==
    phase = "call" /\ ret = NoValue /\ ResolveTimeArgs(args) /\ Idle

SpecResolveTime == InitResolveTime /\ [][ResolveTimeStep]_vars

FindDSTTransitionStep ==
    /\ phase = "call"
    /\ args.op = "FindDSTTransition"
    /\ ret' = FindDSTTransition(args.t, args.windowDays)
    /\ phase' = "done"
    /\ UNCHANGED <<args, components>>

InitFindDSTTransition ==
    phase = "call" /\ ret = NoValue /\ FindDSTTransitionArgs(args) /\ Idle

SpecFindDSTTransition ==
    InitFindDSTTransition /\ [][FindDSTTransitionStep]_vars

LookupTimeStep ==
    /\ phase = "call"
    /\ args.op = "LookupTime"
    /\ ret' = LookupTime(args.iata, args.now, args.clock)
    /\ phase' = "done"
    /\ UNCHANGED <<args, components>>

InitLookupTime ==
    phase = "call" /\ ret = NoValue /\ LookupTimeArgs(args) /\ Idle

SpecLookupTime == InitLookupTime /\ [][LookupTimeStep]_vars

ShowConversionStep ==
    /\ phase = "call"
    /\ args.op = "ShowConversion"
    /\ ret' = ShowConversion(args.sourceSpec, args.targets, args.ps1Format,
                             args.now, args.clock)
    /\ phase' = "done"
    /\ UNCHANGED <<args, components>>

InitShowConversion ==
    phase = "call" /\ ret = NoValue /\ ShowConversionArgs(args) /\ Idle

SpecShowConversion == InitShowConversion /\ [][ShowConversionStep]_vars

ParseWorkHoursStep ==
    /\ phase = "call"
    /\ args.op = "ParseWorkHours"
    /\ ret' = ParseWorkHours(args.s)
    /\ phase' = "done"
    /\ UNCHANGED <<args, components>>

InitParseWorkHours ==
    phase = "call" /\ ret = NoValue /\ ParseWorkHoursArgs(args) /\ Idle

SpecParseWorkHours == InitParseWorkHours /\ [][ParseWorkHoursStep]_vars

ShowOverlapStep ==
    /\ phase = "call"
    /\ args.op = "ShowOverlap"
    /\ ret' = ShowOverlap(args.iatas, args.workHours, args.now, args.clock)
    /\ phase' = "done"
    /\ UNCHANGED <<args, components>>

InitShowOverlap ==
    phase = "call" /\ ret = NoValue /\ ShowOverlapArgs(args) /\ Idle

SpecShowOverlap == InitShowOverlap /\ [][ShowOverlapStep]_vars

SaveStep ==
    \E name \in NameInputs, codes \in CodeLists, io \in IOAnswers :
        /\ phase = "store"
        /\ args' = [op |-> "Save", name |-> name, codes |-> codes]
        /\ aliases' = Save(aliases, disk, name, codes, io).aliases
        /\ disk' = Save(aliases, disk, name, codes, io).file
        /\ ret' = Save(aliases, disk, name, codes, io).err
        /\ latest' = IF ret' = NoError
                     THEN Put(latest, ToLower(name),
                              [op |-> "Save", codes |-> codes])
                     ELSE latest
        /\ failed' = (failed \/ ret' # NoError)
        /\ reopened' = NoValue
        /\ UNCHANGED <<phase, fetchVars, cacheVars>>

DeleteStep ==
    \E name \in NameInputs, io \in IOAnswers :
        /\ phase = "store"
        /\ args' = [op |-> "Delete", name |-> name]
        /\ aliases' = Delete(aliases, disk, name, io).aliases
        /\ disk' = Delete(aliases, disk, name, io).file
        /\ ret' = Delete(aliases, disk, name, io).err
        /\ latest' = IF ret' = NoError
                     THEN Put(latest, ToLower(name),
                              [op |-> "Delete", codes |-> <<>>])
                     ELSE latest
        /\ failed' = (failed \/ ret' # NoError)
        /\ reopened' = NoValue
        /\ UNCHANGED <<phase, fetchVars, cacheVars>>

\* A new store is opened on the path of the first.
OpenStep ==
    /\ phase = "store"
    /\ reopened = NoValue
    /\ reopened' = NewAliasStoreWithPath(disk)
    /\ UNCHANGED <<phase, args, ret, aliases, disk, latest, failed>>
    /\ UNCHANGED <<fetchVars, cacheVars>>

InitAliasStore ==
    /\ phase = "store"
    /\ args = NoValue
    /\ ret = NoValue
    /\ disk \in InitialFiles
    /\ aliases = NewAliasStoreWithPath(disk).aliases
    /\ reopened = NoValue
    /\ latest = EmptyMap
    /\ failed = FALSE
    /\ FetchIdle
    /\ CacheIdle

SpecAliasStore ==
    InitAliasStore /\ [][SaveStep \/ DeleteStep \/ OpenStep]_vars

\* The first loop starts the next goroutine.
GoStep ==
    /\ phase = "call"
    /\ args.op = "FetchAll"
    /\ Len(routines) < Len(args.iatas)
    /\ routines' = Append(routines, Started(args.iatas[Len(routines) + 1]))
    /\ UNCHANGED <<phase, args, ret, ch, fetchResults, received, storeVars>>
    /\ UNCHANGED cacheVars

\* The fetch of goroutine i returns.
FetchReturnsStep(i) ==
    /\ i \in DOMAIN routines
    /\ routines[i].pc = "fetch"
    /\ \E info \in FetchOutcomes(routines[i].code) :
           routines' = [routines EXCEPT ![i].pc = "send", ![i].info = info]
    /\ UNCHANGED <<phase, args, ret, ch, fetchResults, received, storeVars>>
    /\ UNCHANGED cacheVars

\* Goroutine i sends its result: it waits while the buffer is full.
SendStep(i) ==
    /\ i \in DOMAIN routines
    /\ routines[i].pc = "send"
    /\ Len(ch) < Capacity(args.iatas)
    /\ ch' = Append(ch, [iata |-> routines[i].code,
                         info |-> routines[i].info])
    /\ routines' = [routines EXCEPT ![i].pc = "done"]
    /\ UNCHANGED <<phase, args, ret, fetchResults, received, storeVars>>
    /\ UNCHANGED cacheVars

\* The second loop receives a result and stores it.
ReceiveStep ==
    /\ phase = "call"
    /\ args.op = "FetchAll"
    /\ Len(routines) = Len(args.iatas)
    /\ received < Len(args.iatas)
    /\ ch # <<>>
    /\ fetchResults' = Put(fetchResults, Head(ch).iata, Head(ch).info)
    /\ ch' = Tail(ch)
    /\ received' = received + 1
    /\ UNCHANGED <<phase, args, ret, routines, storeVars, cacheVars>>

ReturnStep ==
    /\ phase = "call"
    /\ args.op = "FetchAll"
    /\ Len(routines) = Len(args.iatas)
    /\ received = Len(args.iatas)
    /\ ret' = [results |-> fetchResults]
    /\ phase' = "done"
    /\ UNCHANGED <<args, routines, ch, fetchResults, received, storeVars>>
    /\ UNCHANGED cacheVars

InitFetchAll ==
    /\ phase = "call"
    /\ ret = NoValue
    /\ FetchAllArgs(args)
    /\ routines = <<>>
    /\ ch = <<>>
    /\ fetchResults = EmptyMap
    /\ received = 0
    /\ StoreIdle
    /\ CacheIdle

FetchAllNext ==
    \/ GoStep
    \/ \E i \in 1..MaxFetches : FetchReturnsStep(i)
    \/ \E i \in 1..MaxFetches : SendStep(i)
    \/ ReceiveStep
    \/ ReturnStep

SpecFetchAll == InitFetchAll /\ [][FetchAllNext]_vars

\* The scheduler runs every goroutine that can take a step, and every
\* fetch returns.
FairFetchAll ==
    /\ SpecFetchAll
    /\ WF_vars(GoStep)
    /\ WF_vars(ReceiveStep)
    /\ WF_vars(ReturnStep)
    /\ \A i \in 1..MaxFetches :
           WF_vars(FetchReturnsStep(i)) /\ WF_vars(SendStep(i))

CachedFetchStep ==
    \E iata \in FetchInputs, elapsed \in 0..1, io \in WriteAnswers :
        \E outcome \in CachedOutcomes(ToUpper(iata)) :
            /\ phase = "cache"
            /\ wallClock + elapsed <= MaxTicks
            /\ args' = [op |-> "Fetch", iata |-> iata]
            /\ ret' =
                 CachedFetch(cacheFiles, wallClock, iata, outcome,
                             elapsed, io).info
            /\ cacheFiles' =
                 CachedFetch(cacheFiles, wallClock, iata, outcome,
                             elapsed, io).files
            /\ wallClock' =
                 CachedFetch(cacheFiles, wallClock, iata, outcome,
                             elapsed, io).now
            /\ fetcherCalls' =
                 CachedFetch(cacheFiles, wallClock, iata, outcome,
                             elapsed, io).calls
            /\ fetched' =
                 CachedFetch(cacheFiles, wallClock, iata, outcome,
                             elapsed, io).fetched
            /\ UNCHANGED <<phase, storeVars, fetchVars>>

\* Time passes between calls.
TickStep ==
    /\ phase = "cache"
    /\ wallClock < MaxTicks
    /\ wallClock' = wallClock + 1
    /\ UNCHANGED <<phase, args, ret, cacheFiles, fetcherCalls, fetched>>
    /\ UNCHANGED <<storeVars, fetchVars>>

InitCachedClient ==
    /\ phase = "cache"
    /\ args = NoValue
    /\ ret = NoValue
    /\ cacheFiles \in [CachedCodes -> {NoValue, Garbled}]
    /\ wallClock = 0
    /\ fetcherCalls = 0
    /\ fetched = NoValue
    /\ StoreIdle
    /\ FetchIdle

SpecCachedClient == InitCachedClient /\ [][CachedFetchStep \/ TickStep]_vars

InitOverlapCommon ==
    phase = "call" /\ ret = NoValue /\ OverlapCommonArgs(args) /\ Idle

SpecOverlapCommon == InitOverlapCommon /\ [][FindOverlapStep]_vars

\* Two stores on one path: aliases is the memory of the first, reopened the
\* second once it is opened, disk the file both write, and latest the last
\* successful call on each name by either.  The operating system does not
\* fail.
SecondOpenStep ==
    /\ phase = "stores"
    /\ reopened = NoValue
    /\ reopened' = NewAliasStoreWithPath(disk)
    /\ UNCHANGED <<phase, args, ret, aliases, disk, latest, failed>>
    /\ UNCHANGED <<fetchVars, cacheVars>>

FirstSaveStep ==
    \E name \in NameInputs, codes \in CodeLists :
        /\ phase = "stores"
        /\ args' = [op |-> "Save", name |-> name, codes |-> codes, by |-> 1]
        /\ aliases' = Save(aliases, disk, name, codes, "ok").aliases
        /\ disk' = Save(aliases, disk, name, codes, "ok").file
        /\ ret' = Save(aliases, disk, name, codes, "ok").err
        /\ latest' = IF ret' = NoError
                     THEN Put(latest, ToLower(name),
                              [op |-> "Save", codes |-> codes])
                     ELSE latest
        /\ UNCHANGED <<phase, reopened, failed, fetchVars, cacheVars>>

SecondSaveStep ==
    \E name \in NameInputs, codes \in CodeLists :
        /\ phase = "stores"
        /\ reopened # NoValue
        /\ args' = [op |-> "Save", name |-> name, codes |-> codes, by |-> 2]
        /\ reopened' =
               [aliases |->
                    Save(reopened.aliases, disk, name, codes, "ok").aliases,
                err |-> NoError]
        /\ disk' = Save(reopened.aliases, disk, name, codes, "ok").file
        /\ ret' = Save(reopened.aliases, disk, name, codes, "ok").err
        /\ latest' = IF ret' = NoError
                     THEN Put(latest, ToLower(name),
                              [op |-> "Save", codes |-> codes])
                     ELSE latest
        /\ UNCHANGED <<phase, aliases, failed, fetchVars, cacheVars>>

FirstDeleteStep ==
    \E name \in NameInputs :
        /\ phase = "stores"
        /\ args' = [op |-> "Delete", name |-> name, codes |-> <<>>, by |-> 1]
        /\ aliases' = Delete(aliases, disk, name, "ok").aliases
        /\ disk' = Delete(aliases, disk, name, "ok").file
        /\ ret' = Delete(aliases, disk, name, "ok").err
        /\ latest' = IF ret' = NoError
                     THEN Put(latest, ToLower(name),
                              [op |-> "Delete", codes |-> <<>>])
                     ELSE latest
        /\ UNCHANGED <<phase, reopened, failed, fetchVars, cacheVars>>

SecondDeleteStep ==
    \E name \in NameInputs :
        /\ phase = "stores"
        /\ reopened # NoValue
        /\ args' = [op |-> "Delete", name |-> name, codes |-> <<>>, by |-> 2]
        /\ reopened' =
               [aliases |-> Delete(reopened.aliases, disk, name, "ok").aliases,
                err |-> NoError]
        /\ disk' = Delete(reopened.aliases, disk, name, "ok").file
        /\ ret' = Delete(reopened.aliases, disk, name, "ok").err
        /\ latest' = IF ret' = NoError
                     THEN Put(latest, ToLower(name),
                              [op |-> "Delete", codes |-> <<>>])
                     ELSE latest
        /\ UNCHANGED <<phase, aliases, failed, fetchVars, cacheVars>>

InitTwoStores ==
    /\ phase = "stores"
    /\ args = NoValue
    /\ ret = NoValue
    /\ disk \in InitialFiles
    /\ aliases = NewAliasStoreWithPath(disk).aliases
    /\ reopened = NoValue
    /\ latest = EmptyMap
    /\ failed = FALSE
    /\ FetchIdle
    /\ CacheIdle

TwoStoresNext ==
    \/ SecondOpenStep
    \/ FirstSaveStep
    \/ SecondSaveStep
    \/ FirstDeleteStep
    \/ SecondDeleteStep

SpecTwoStores == InitTwoStores /\ [][TwoStoresNext]_vars

Done(op) == phase = "done" /\ args.op = op

(***************************************************************************)
(* Claims.                                                                 *)
(***************************************************************************)
Elems(q) == {q[i] : i \in 1..Len(q)}

StrictlyAscending(q) == \A i \in 1..(Len(q) - 1) : q[i] < q[i + 1]

\* A code resolves: its upper-case form is in the table and its zone loads.
Resolvable(code) ==
    ToUpper(code) \in DOMAIN IATA /\ CanLoad(IATA[ToUpper(code)])

InTable(code) == ToUpper(code) \in DOMAIN IATA

OffsetAt(code, refTime) == ZoneOffset(In(refTime, IATA[ToUpper(code)]))

\* The first index of codes at which P fails, 0 when there is none.
FirstNot(codes, P(_)) ==
    LET bad == {i \in 1..Len(codes) : ~P(codes[i])}
    IN  IF bad = {} THEN 0 ELSE CHOOSE i \in bad : \A j \in bad : i <= j

\* C1: for a list of at least two resolvable codes FindOverlap succeeds and
\* OverlapHoursUTC is the strictly ascending list of exactly the UTC hours h
\* in 0..23 at which every location's local hour (h + Offset/3600) mod 24,
\* with Offset the location's offset at the reference instant and / the
\* integer division of the code, lies in [Start, End).
C1_OverlapHoursExact ==
    (Done("FindOverlap") /\ Len(args.iatas) >= 2
        /\ \A k \in 1..Len(args.iatas) : Resolvable(args.iatas[k]))
    => /\ ret.err = NoError
       /\ StrictlyAscending(ret.result.OverlapHoursUTC)
       /\ Elems(ret.result.OverlapHoursUTC) =
              {h \in 0..23 :
                  \A k \in 1..Len(args.iatas) :
                      LET off == OffsetAt(args.iatas[k], args.refTime)
                          localHour == (h + GoDiv(off, 3600)) % 24
                      IN  args.workHours.Start <= localHour
                              /\ localHour < args.workHours.End}

C1_Witness ==
    /\ Done("FindOverlap")
    /\ Len(args.iatas) = 3
    /\ ret.err = NoError
    /\ Len(ret.result.OverlapHoursUTC) \in 1..23
    /\ \E k \in 1..3 : ret.result.Locations[k].Offset < 0
    /\ \E k \in 1..3 : ret.result.Locations[k].Offset > 0

PairHours(a, b, w, n) ==
    (Done("FindOverlap") /\ args.iatas = <<a, b>> /\ args.workHours = w
        /\ args.refTime = WinterRef)
    => ret.err = NoError /\ Len(ret.result.OverlapHoursUTC) = n

\* C2: for two locations with whole-hour offsets and a window of length
\* L = End - Start, 0 <= Start < End <= 24, the number of overlapping hours
\* is max(0, L - d) + max(0, L - (24 - d)), d the offset difference in hours
\* mod 24; San Francisco and New York (3 hours apart) have 5 with 9-17, San
\* Francisco and London (8 hours apart) 0 with 9-17, 2 with 8-18 and 4 with
\* 7-19.
C2_PairOverlapCount ==
    /\ (Done("FindOverlap") /\ Len(args.iatas) = 2 /\ ret.err = NoError
           /\ args.workHours.Start < args.workHours.End
           /\ \A k \in 1..2 : ret.result.Locations[k].Offset % 3600 = 0)
       => LET L == args.workHours.End - args.workHours.Start
              d == ((OffsetAt(args.iatas[1], args.refTime)
                       - OffsetAt(args.iatas[2], args.refTime)) \div 3600) % 24
          IN  Len(ret.result.OverlapHoursUTC) =
                  Max(0, L - d) + Max(0, L - (24 - d))
    /\ PairHours(SFO, jfk, DefaultWorkHours, 5)
    /\ PairHours(SFO, LON, DefaultWorkHours, 0)
    /\ PairHours(SFO, LON, [Start |-> 8, End |-> 18], 2)
    /\ PairHours(SFO, LON, [Start |-> 7, End |-> 19], 4)

C2_Witness ==
    /\ Done("FindOverlap")
    /\ args.iatas = <<SFO, LON>>
    /\ args.workHours = [Start |-> 7, End |-> 19]
    /\ args.refTime = WinterRef
    /\ ret.err = NoError
    /\ ret.result.OverlapHoursUTC = <<15, 16, 17, 18>>

C4_RangesMaximalExact ==
    Done("groupConsecutiveHours") =>
        LET n == Len(ret) IN
        /\ \A i \in 1..n : 0 <= ret[i].start /\ ret[i].start < ret[i].end
                              /\ ret[i].end <= 24
        /\ \A i \in 1..(n - 1) : ret[i].end < ret[i + 1].start
        /\ UNION {ret[i].start..(ret[i].end - 1) : i \in 1..n}
               = Elems(args.hours)
        /\ args.hours = <<>> => ret = <<>>
        /\ (0 \in Elems(args.hours) /\ 23 \in Elems(args.hours)
               /\ Len(args.hours) < 24)
           => n >= 2 /\ ret[1].start = 0 /\ ret[n].end = 24

C4_Witness ==
    /\ Done("groupConsecutiveHours")
    /\ args.hours = <<0, 1, 9, 10, 14, 15, 16, 22, 23>>
    /\ ret = << [start |-> 0, end |-> 2], [start |-> 9, end |-> 11],
                [start |-> 14, end |-> 17], [start |-> 22, end |-> 24] >>

\* C5: with d = target offset - local offset, RelativeOffset renders
\* "(" sign H "h" [M "m"] ")" where sign is "-" exactly when d < 0 and "+"
\* otherwise, H = |d| div 3600, M = (|d| div 60) mod 60 (never negative),
\* and the minutes are left out exactly when M = 0.
C5_RelativeOffsetRendering ==
    Done("RelativeOffset") =>
        LET d == args.targetOffset - args.localOffset
            H == Abs(d) \div 3600
            M == (Abs(d) \div 60) % 60
        IN  /\ ret.sign = (IF d < 0 THEN "-" ELSE "+")
            /\ ret.hours = H
            /\ ret.minutes = M
            /\ ret.minutes >= 0
            /\ ret.format = (IF M = 0 THEN "(%s%dh)" ELSE "(%s%dh%dm)")

C5_Witness ==
    /\ Done("RelativeOffset")
    /\ args.targetOffset - args.localOffset = -1800
    /\ ret = [format |-> "(%s%dh%dm)", sign |-> "-", hours |-> 0,
              minutes |-> 30]

\* C6: for two offsets a # b, the result for target a and local b and the
\* result for target b and local a have the same hours and minutes and
\* opposite signs; for a = b both are "(+0h)".
C6_RelativeOffsetAntisymmetric ==
    Done("RelativeOffset") =>
        LET back == RelativeOffset(args.localOffset, args.targetOffset)
            zero == [format |-> "(%s%dh)", sign |-> "+", hours |-> 0,
                     minutes |-> 0]
        IN  IF args.targetOffset = args.localOffset
            THEN ret = zero /\ back = zero
            ELSE /\ ret.hours = back.hours
                 /\ ret.minutes = back.minutes
                 /\ ret.format = back.format
                 /\ {ret.sign, back.sign} = {"+", "-"}

C6_Witness ==
    /\ Done("RelativeOffset")
    /\ args.targetOffset = 0
    /\ args.localOffset = 19800
    /\ ret = [format |-> "(%s%dh%dm)", sign |-> "-", hours |-> 5,
              minutes |-> 30]
    /\ RelativeOffset(19800, 0) =
           [format |-> "(%s%dh%dm)", sign |-> "+", hours |-> 5,
            minutes |-> 30]

\* s has the shape CODE@H[:MM] with hourLen hour digits and, when withMinute,
\* a colon and two minute digits.
HasShape(s, hourLen, withMinute) ==
    /\ Len(s) = 4 + hourLen + (IF withMinute THEN 3 ELSE 0)
    /\ AllIn(SubSeq(s, 1, 3), Letters)
    /\ s[4] = "@"
    /\ AllIn(SubSeq(s, 5, 4 + hourLen), Digits)
    /\ withMinute =>
           /\ s[5 + hourLen] = ":"
           /\ AllIn(SubSeq(s, 6 + hourLen, 7 + hourLen), Digits)

\* C7: ParseTimeSpec returns a TimeSpec exactly for the strings CODE@H[:MM]
\* (three letters, an hour of one or two digits in 0..23 and, optionally, a
\* colon followed by exactly two minute digits in 0..59), with the code in
\* upper case, the hour as written and the minute as written or 0; every
\* other string gives nil.
C7_ParseTimeSpecShape ==
    Done("ParseTimeSpec") =>
        LET s == args.s
            shapes == {sh \in {1, 2} \X BOOLEAN :
                          /\ HasShape(s, sh[1], sh[2])
                          /\ ScanInt(SubSeq(s, 5, 4 + sh[1])) <= 23
                          /\ sh[2] =>
                                ScanInt(SubSeq(s, 6 + sh[1], 7 + sh[1])) <= 59}
        IN  IF shapes = {} THEN ret = NoValue
            ELSE \E sh \in shapes :
                   ret = [IATA |-> ToUpper(SubSeq(s, 1, 3)),
                          Hour |-> ScanInt(SubSeq(s, 5, 4 + sh[1])),
                          Minute |->
                              IF sh[2]
                              THEN ScanInt(SubSeq(s, 6 + sh[1], 7 + sh[1]))
                              ELSE 0]

\* Some instant reads hour:minute on the given day in the zone.
WallTimeExists(day, hour, minute, loc) ==
    \E u \in {At(day, hour, minute) - o :
                 o \in {ZoneData[loc].base}
                     \cup {ZoneData[loc].tx[i].offset :
                             i \in 1..Len(ZoneData[loc].tx)}} :
        Wall([unix |-> u, loc |-> loc]) = At(day, hour, minute)

C9_FixedZoneNoTransition ==
    (Done("FindDSTTransition") /\ ZoneData[args.t.loc].tx = <<>>)
    => ret = NoValue

C9_Witness ==
    /\ Done("FindDSTTransition")
    /\ args.t.loc = "America/Phoenix"
    /\ args.windowDays = MaxWindow
    /\ ret = NoValue

\* The instants at which the offset of the reference's zone changes.
Changes == {ZoneData[args.t.loc].tx[i].when : i \in DOMAIN ZoneData[args.t.loc].tx}

\* The instant is no further than the window from the reference.
InWindow(unix) == Abs(unix - args.t.unix) <= args.windowDays * 86400

\* The change a returned transition reports: the last one at or before
\* its Date.
Reported == Lookup(args.t.loc, ret.Date.unix).start

\* C10 as stated: the result is the change nearest to the reference among
\* the changes within the window, and nil when the window holds none.
C10_NearestChangeInWindow ==
    Done("FindDSTTransition") =>
        IF \A c \in Changes : ~InWindow(c)
        THEN ret = NoValue
        ELSE /\ ret # NoValue
             /\ Reported \in Changes
             /\ InWindow(Reported)
             /\ \A c \in Changes :
                    InWindow(c) =>
                        Abs(Reported - args.t.unix) <= Abs(c - args.t.unix)

\* The wall-clock hour (d, h) of the reference's zone is within the window
\* and its offset differs from that of the wall-clock hour before it.
Detected(d, h) ==
    LET loc == args.t.loc
        c == Date(d, h, 0, loc)
        p == IF h = 0 THEN Date(d - 1, 23, 0, loc) ELSE Date(d, h - 1, 0, loc)
    IN  InWindow(c.unix) /\ ZoneOffset(c) # ZoneOffset(p)

\* The wall-clock hours of the days reference - window .. reference + window.
ScannedHours ==
    ((DayOf(args.t) - args.windowDays)..(DayOf(args.t) + args.windowDays))
        \X (0..23)

\* The calendar days around the reference, beyond those the scan visits.
DaysAround ==
    (DayOf(args.t) - args.windowDays - 2)..(DayOf(args.t) + args.windowDays + 2)

\* The reference's clock reading exists on each of the days around it:
\* time.Date gives it a time of that date, so AddDate lands on the date
\* asked for.
ClockExistsAround ==
    \A d \in DaysAround :
        DayOf(Date(d, HourOf(args.t), MinuteOf(args.t), args.t.loc)) = d

\* Where AddDate lands on the dates asked for, the result is the first
\* wall-clock hour, in the order of the days reference - window ..
\* reference + window and of the hours 0..23 of each, that is within
\* window * 24 hours of the reference and whose offset differs from that of
\* the wall-clock hour before it, whether or not a later change is nearer
\* to the reference; it is nil exactly when there is no such hour.
C10_FirstDetectedHourWhereClockExists ==
    (Done("FindDSTTransition") /\ ClockExistsAround) =>
        LET hits == {dh \in ScannedHours : Detected(dh[1], dh[2])}
        IN  IF hits = {}
            THEN ret = NoValue
            ELSE /\ ret # NoValue
                 /\ \E dh \in hits :
                        /\ ret.Date = Date(dh[1], dh[2], 0, args.t.loc)
                        /\ \A o \in hits :
                               \/ o[1] > dh[1]
                               \/ o[1] = dh[1] /\ o[2] >= dh[2]

\* The least k with k * b >= a, for a >= 0.
Ceiling(a, b) == (a + b - 1) \div b

\* C11: a returned transition h hours after the reference has
\* DaysUntil = ceil(h / 24), one h hours before it has
\* DaysUntil = -ceil(h / 24), and one at the reference has DaysUntil = 0,
\* whether or not the reference is on an hour boundary.
C11_DaysUntilCeiling ==
    (Done("FindDSTTransition") /\ ret # NoValue) =>
        ret.DaysUntil =
            IF ret.Date.unix >= args.t.unix
            THEN Ceiling(ret.Date.unix - args.t.unix, 86400)
            ELSE -Ceiling(args.t.unix - ret.Date.unix, 86400)

\* The same for references a whole number of hours from the transition.
C11_DaysUntilCeilingWholeHours ==
    (/\ Done("FindDSTTransition")
     /\ ret # NoValue
     /\ (ret.Date.unix - args.t.unix) % 3600 = 0) =>
        ret.DaysUntil =
            IF ret.Date.unix >= args.t.unix
            THEN Ceiling(ret.Date.unix - args.t.unix, 86400)
            ELSE -Ceiling(args.t.unix - ret.Date.unix, 86400)

\* C12: LookupTime reports Found exactly for the strings whose upper-case
\* form is in the table with a zone that loads; Time is then the reference
\* instant in that zone and Location the table's zone name; IATA is always
\* the upper-case input.
C12_LookupTimeFoundExactly ==
    (Done("LookupTime") /\ args.now # NoValue) =>
        /\ ret.IATA = ToUpper(args.iata)
        /\ ret.Found = Resolvable(args.iata)
        /\ ret.Found =>
               /\ ret.Time.unix = args.now.unix
               /\ ret.Time.loc = IATA[ToUpper(args.iata)]
               /\ ret.Location = IATA[ToUpper(args.iata)]

\* A lower-case code is found, its time read in a zone other than the
\* reference's.
C12_Witness ==
    /\ Done("LookupTime")
    /\ args.iata = jfk
    /\ args.now # NoValue
    /\ ret.Found
    /\ ret.Time.loc # args.now.loc
    /\ Wall(ret.Time) # Wall(args.now)

\* The source of the conversion resolves: its code, as written, is in the
\* table and its zone loads.
SourceResolves ==
    args.sourceSpec.IATA \in DOMAIN IATA
        /\ CanLoad(IATA[args.sourceSpec.IATA])

\* The text written for a target is the "??:??" placeholder.
IsPlaceholder(part) == part.format \in {"%s ??:??", "%s: ??:??"}

\* The conversion of the same source to the resolvable targets alone.
WithoutUnresolvable ==
    ShowConversion(args.sourceSpec, SelectSeq(args.targets, Resolvable),
                   args.ps1Format, args.now, args.clock)

\* C13: an unresolvable source gives only the "Unknown airport code" line
\* and no target result; otherwise every found target's Time is the instant
\* of the source's Time, an unresolvable target is rendered as the "??:??"
\* placeholder, and the results and texts of the other targets are those
\* of the conversion without the unresolvable ones.
C13_TargetsShareSourceInstant ==
    Done("ShowConversion") =>
        IF ~SourceResolves
        THEN /\ ret.result = NoValue
             /\ ret.out = UnknownLine(args.sourceSpec.IATA)
        ELSE /\ Len(ret.result.Targets) = Len(args.targets)
             /\ Len(ret.out.targets) = Len(args.targets)
             /\ \A i \in 1..Len(args.targets) :
                    /\ ret.result.Targets[i].Found = Resolvable(args.targets[i])
                    /\ ret.result.Targets[i].Found =>
                           ret.result.Targets[i].Time.unix =
                               ret.result.Source.Time.unix
                    /\ IsPlaceholder(ret.out.targets[i]) =
                           ~Resolvable(args.targets[i])
             /\ SelectSeq(ret.result.Targets, LAMBDA r : r.Found) =
                    WithoutUnresolvable.result.Targets
             /\ SelectSeq(ret.out.targets, LAMBDA p : ~IsPlaceholder(p)) =
                    WithoutUnresolvable.out.targets
             /\ ret.out.source = WithoutUnresolvable.out.source

\* Two found targets around an unresolvable one, in zones other than the
\* source's, and a source instant other than the reference.
C13_Witness ==
    /\ Done("ShowConversion")
    /\ SourceResolves
    /\ Len(args.targets) = 3
    /\ ret.result.Targets[1].Found
    /\ ~ret.result.Targets[2].Found
    /\ ret.result.Targets[3].Found
    /\ ret.result.Targets[1].Location # ret.result.Targets[3].Location
    /\ args.now # NoValue
    /\ ret.result.Source.Time.unix # args.now.unix

\* A string of one or more digits.
IsNumber(q) == Len(q) >= 1 /\ AllIn(q, Digits)

\* q is H, or H:MM when withMinutes, the hour at most maxHour and the
\* minutes at most 59.
IsClock(q, withMinutes, maxHour) ==
    IF ~withMinutes
    THEN IsNumber(q) /\ ScanInt(q) <= maxHour
    ELSE \E c \in 1..Len(q) :
            /\ q[c] = ":"
            /\ IsNumber(SubSeq(q, 1, c - 1))
            /\ ScanInt(SubSeq(q, 1, c - 1)) <= maxHour
            /\ IsNumber(SubSeq(q, c + 1, Len(q)))
            /\ ScanInt(SubSeq(q, c + 1, Len(q))) <= 59

\* The hour of a string that IsClock.
ClockHour(q) == ScanInt(SubSeq(q, 1, DigitsEnd(q, 1) - 1))

\* s is H-H or H:MM-H:MM with the dash at position d.
HasWorkHoursForm(s, d) ==
    /\ s[d] = "-"
    /\ \E withMinutes \in BOOLEAN :
           /\ IsClock(SubSeq(s, 1, d - 1), withMinutes, 23)
           /\ IsClock(SubSeq(s, d + 1, Len(s)), withMinutes, 24)

\* C14: ParseWorkHours returns the two hours exactly for the strings of
\* the form H-H or H:MM-H:MM with the start in 0..23, the end in 0..24 and
\* the minutes in 0..59, and nil for every other string.
C14_ParseWorkHoursForm ==
    Done("ParseWorkHours") =>
        IF \E d \in 1..Len(args.s) : HasWorkHoursForm(args.s, d)
        THEN \E d \in 1..Len(args.s) :
                /\ HasWorkHoursForm(args.s, d)
                /\ ret = [Start |-> ClockHour(SubSeq(args.s, 1, d - 1)),
                          End |-> ClockHour(SubSeq(args.s, d + 1, Len(args.s)))]
        ELSE ret = NoValue

\* One half of it: every string of the form is parsed to its two hours.
C14_FormIsParsed ==
    Done("ParseWorkHours") =>
        \A d \in 1..Len(args.s) :
            HasWorkHoursForm(args.s, d) =>
                ret = [Start |-> ClockHour(SubSeq(args.s, 1, d - 1)),
                       End |-> ClockHour(SubSeq(args.s, d + 1, Len(args.s)))]

\* Text after a window of the form is not read: "9-17x".
C14_TrailingTextParsed ==
    /\ Done("ParseWorkHours")
    /\ args.s = <<"9", "-", "1", "7", "x">>
    /\ ret = [Start |-> 9, End |-> 17]

\* The overlap of SFO and JFK with work hours 8-18 is asked for at a
\* reference at which JFK's offset is 3 hours east of SFO's.
SFOAndJFKFrom8To18 ==
    /\ Done("ShowOverlap")
    /\ Len(args.iatas) = 2
    /\ ToUpper(args.iatas[1]) = SFO
    /\ ToUpper(args.iatas[2]) = ToUpper(jfk)
    /\ args.workHours = [Start |-> 8, End |-> 18]
    /\ OffsetAt(jfk, IF args.now # NoValue THEN args.now ELSE args.clock)
           - OffsetAt(SFO, IF args.now # NoValue THEN args.now ELSE args.clock)
       = 3 * 3600

\* C15: with work hours 8-18, SFO and JFK, the lines written are the
\* single range "09:00-15:00 SFO = 12:00-18:00 JFK" and
\* "(6 hours overlap)".
C15_SixHoursFrom9 ==
    SFOAndJFKFrom8To18 =>
        ret.out.lines =
            << [line |-> "range",
                parts |-> << [startLocal |-> 9, endLocal |-> 15,
                              IATA |-> SFO],
                             [startLocal |-> 12, endLocal |-> 18,
                              IATA |-> ToUpper(jfk)] >>],
               [line |-> "  (%d hours overlap)\n", hours |-> 6] >>

\* What is written instead: "08:00-15:00 SFO = 11:00-18:00 JFK" and
\* "(7 hours overlap)".
C15_SevenHoursFrom8 ==
    SFOAndJFKFrom8To18 =>
        ret.out.lines =
            << [line |-> "range",
                parts |-> << [startLocal |-> 8, endLocal |-> 15,
                              IATA |-> SFO],
                             [startLocal |-> 11, endLocal |-> 18,
                              IATA |-> ToUpper(jfk)] >>],
               [line |-> "  (%d hours overlap)\n", hours |-> 7] >>

\* The upper-case form of the codes as they were given to Save.
InUpperCase(codes) == [i \in 1..Len(codes) |-> ToUpper(codes[i])]

\* The store holds name n as the calls made so far leave it: with the
\* codes of its most recent Save, or not at all after a Delete.
HoldsLatest(store, n) ==
    IF latest[n].op = "Delete" THEN n \notin DOMAIN store
    ELSE /\ n \in DOMAIN store
         /\ store[n] = InUpperCase(latest[n].codes)
         /\ \A v \in NameInputs :
                ToLower(v) = n => Get(store, v) = InUpperCase(latest[n].codes)

\* C16: after Save and Delete calls that all returned nil, a store opened
\* on the same path opens without error and holds exactly the aliases of
\* the first store's memory: each name called on is held under its
\* lower-case form with the upper-cased codes, in order, of its most recent
\* Save, is absent when a Delete followed that Save, and Get finds it
\* under every letter case.
C16_ReopenedStoreHoldsSavedAliases ==
    (phase = "store" /\ ~failed /\ reopened # NoValue) =>
        /\ reopened.err = NoError
        /\ reopened.aliases = aliases
        /\ \A n \in DOMAIN latest :
               HoldsLatest(reopened.aliases, n) /\ HoldsLatest(aliases, n)

\* A store reopened after a name was saved with lower-case codes and
\* another name was deleted, every call having succeeded.
C16_Witness ==
    /\ phase = "store"
    /\ ~failed
    /\ reopened # NoValue
    /\ \E n \in DOMAIN latest : latest[n].op = "Delete"
    /\ \E n \in DOMAIN latest :
           /\ latest[n].op = "Save"
           /\ latest[n].codes # InUpperCase(latest[n].codes)
           /\ Len(latest[n].codes) = 2

\* The upper-case forms of the codes FetchAll was called with.
Wanted == {ToUpper(args.iatas[k]) : k \in DOMAIN args.iatas}

\* The returned map holds, for exactly the wanted codes, the Info that a
\* fetch of that code returned.
Delivered ==
    /\ DOMAIN ret.results = Wanted
    /\ \A code \in Wanted :
           \E i \in DOMAIN routines :
               /\ routines[i].code = code
               /\ ret.results[code] = routines[i].info

\* One goroutine was started per input, none twice.
OnePerInput ==
    /\ Len(routines) = Len(args.iatas)
    /\ \A k \in DOMAIN routines : routines[k].code = ToUpper(args.iatas[k])

\* A goroutine that has its result can hand it over at once.
CanSend ==
    \A i \in DOMAIN routines : routines[i].pc = "send" => ENABLED SendStep(i)

\* C17: when every fetch returns, FetchAll returns; the map it returns
\* holds, for exactly the distinct upper-cased input codes, the Info that a
\* fetch of that code returned (the zero Info with Found = false when that
\* fetch failed), one goroutine having run per input; and a goroutine
\* never waits to hand over its result.
C17_FetchAllDelivers ==
    /\ [](Done("FetchAll") => Delivered /\ OnePerInput)
    /\ [](args.op = "FetchAll" => CanSend)
    /\ <>Done("FetchAll")

\* FetchAll has returned the results of two codes, one of them fetched
\* twice: a failed fetch and a successful one of the same code, the other
\* code found.
C17_Witness ==
    /\ Done("FetchAll")
    /\ Cardinality(Wanted) = 2
    /\ \E i, j \in DOMAIN routines :
           /\ routines[i].code = routines[j].code
           /\ ~routines[i].info.Found
           /\ routines[j].info.Found
           /\ ret.results[routines[i].code].Found
    /\ \E i \in DOMAIN routines :
           /\ routines[i].code = ToUpper(jfk)
           /\ ret.results[routines[i].code].Found

\* Before the call that the step makes, the cache holds for the call's
\* upper-cased code a readable entry that is at most CacheTTL old.
HeldFresh ==
    /\ cacheFiles[ToUpper(args'.iata)] \notin {NoValue, Garbled}
    /\ wallClock - cacheFiles[ToUpper(args'.iata)].FetchedAt <= CacheTTL

\* The call returned the held entry as a found Info, called no fetcher
\* and left the cache as it was.
ServedFromCache ==
    /\ fetcherCalls' = 0
    /\ ret' = Info(cacheFiles[ToUpper(args'.iata)].Condition,
                   cacheFiles[ToUpper(args'.iata)].Temp, TRUE)
    /\ cacheFiles' = cacheFiles

\* The call called the fetcher once and returned its result; the cache
\* changed at most in the file of the call's code, and only for a found
\* result, which a completed write stored with the time of the write.
ServedByFetcher ==
    /\ fetcherCalls' = 1
    /\ fetched' \in CachedOutcomes(ToUpper(args'.iata))
    /\ ret' = fetched'
    /\ \A code \in CachedCodes \ {ToUpper(args'.iata)} :
           cacheFiles'[code] = cacheFiles[code]
    /\ ~ret'.Found => cacheFiles' = cacheFiles
    /\ cacheFiles' # cacheFiles =>
           cacheFiles'[ToUpper(args'.iata)] \in
               {Garbled, CacheEntry(ret'.Condition, ret'.Temp, wallClock')}

\* C18: a Fetch call returns the cached Info, calling no fetcher, exactly
\* when the cache holds a readable entry for the upper-cased code that is
\* at most CacheTTL old; otherwise it calls the fetcher exactly once,
\* returns its result, and stores it only when it is found.
C18_CachedFetch ==
    [][CachedFetchStep =>
           IF HeldFresh THEN ServedFromCache ELSE ServedByFetcher]_vars

\* A call was answered from an entry exactly CacheTTL old.
C18_Witness ==
    /\ phase = "cache"
    /\ args # NoValue
    /\ fetcherCalls = 0
    /\ cacheFiles[ToUpper(args.iata)] \notin {NoValue, Garbled}
    /\ wallClock - cacheFiles[ToUpper(args.iata)].FetchedAt = CacheTTL
    /\ ret = Info(cacheFiles[ToUpper(args.iata)].Condition,
                  cacheFiles[ToUpper(args.iata)].Temp, TRUE)

\* The changes of the reference's zone within the window.
ChangesInWindow == {c \in Changes : InWindow(c)}

\* C19: when the window holds more than one change of the zone's offset,
\* the result is not nil and reports the earliest of them, whether or not
\* a later one is nearer to the reference.
C19_EarliestOfSeveral ==
    (Done("FindDSTTransition") /\ Cardinality(ChangesInWindow) > 1) =>
        /\ ret # NoValue
        /\ Reported \in ChangesInWindow
        /\ \A c \in ChangesInWindow : Reported <= c

\* The window holds two changes, the reference is after both, and the
\* earlier, farther one is returned as a past transition.
C19_Witness ==
    /\ Done("FindDSTTransition")
    /\ Cardinality(ChangesInWindow) = 2
    /\ \A c \in ChangesInWindow : c < args.t.unix
    /\ ret # NoValue
    /\ ret.DaysUntil < 0
    /\ \E c \in ChangesInWindow : Reported < c

\* C20 as stated: if the offset at some wall-clock hour of some calendar
\* day differs from the offset at the wall-clock hour before it, and the instant of
\* that hour is within window * 24 hours of the reference, the result is
\* not nil.
C20_ChangedHourInWindowIsFound ==
    Done("FindDSTTransition") =>
        ((\E d \in DaysAround, h \in 0..23 : Detected(d, h))
             => ret # NoValue)

\* Where AddDate lands on the dates asked for, such an hour is found.
C20_ChangedHourInWindowIsFoundWhereClockExists ==
    (Done("FindDSTTransition") /\ ClockExistsAround) =>
        ((\E d \in DaysAround, h \in 0..23 : Detected(d, h))
             => ret # NoValue)

\* The offset at the wall-clock hour (d, h) of the reference's zone minus
\* the offset at the wall-clock hour before it.
Delta(d, h) ==
    ZoneOffset(Date(d, h, 0, args.t.loc))
        - ZoneOffset(IF h = 0 THEN Date(d - 1, 23, 0, args.t.loc)
                     ELSE Date(d, h - 1, 0, args.t.loc))

\* The transition says what the delta is: its direction in Description,
\* its sign and its magnitude in hours and minutes in OffsetChange.
Describes(transition, delta) ==
    /\ delta # 0
    /\ transition.Description = "DST starts" <=> delta > 0
    /\ transition.Description = "DST ends" <=> delta < 0
    /\ transition.OffsetChange.sign = "+" <=> delta > 0
    /\ transition.OffsetChange.sign = "-" <=> delta < 0
    /\ transition.OffsetChange.format # "+0h"
    /\ transition.OffsetChange.hours * 3600
           + transition.OffsetChange.minutes * 60 = Abs(delta)
    /\ transition.OffsetChange.minutes \in 0..59
    /\ transition.OffsetChange.format = "%s%dh" <=>
           transition.OffsetChange.minutes = 0

\* C21 as stated: a returned transition is at a scanned wall-clock hour
\* whose offset differs from that of the hour before; Description is
\* "DST starts" exactly for a positive delta and "DST ends" exactly for a
\* negative one, and OffsetChange has the delta's sign and its magnitude in
\* hours and minutes, never "+0h".
C21_TransitionDescribesDelta ==
    (Done("FindDSTTransition") /\ ret # NoValue) =>
        \E dh \in ScannedHours :
            /\ ret.Date = Date(dh[1], dh[2], 0, args.t.loc)
            /\ Describes(ret, Delta(dh[1], dh[2]))

\* Description and OffsetChange say what checkOffset - prevOffset was at
\* the iteration that returned, prevOffset being that of the prevHour the
\* loop built.
C21_TransitionDescribesComputedDelta ==
    (Done("FindDSTTransition") /\ ret # NoValue) =>
        \E day \in 0..LastDay(args.windowDays), hour \in 0..23 :
            LET checkDay == AddDate(AddDate(args.t, -args.windowDays), day)
            IN  /\ ret.Date = CheckTime(checkDay, hour, args.t.loc)
                /\ Describes(ret,
                             ZoneOffset(ret.Date)
                                 - ZoneOffset(PrevHour(checkDay, hour,
                                                       args.t.loc)))

\* C22: a returned transition's Date is within window * 24 hours of the
\* reference in either direction, its DaysUntil is within -window ..
\* window, not negative when Date is after the reference and not positive
\* otherwise.
C22_TransitionWithinWindow ==
    (Done("FindDSTTransition") /\ ret # NoValue) =>
        /\ ret.Date.unix - args.t.unix <= args.windowDays * 24 * 3600
        /\ args.t.unix - ret.Date.unix <= args.windowDays * 24 * 3600
        /\ ret.DaysUntil >= -args.windowDays
        /\ ret.DaysUntil <= args.windowDays
        /\ ret.Date.unix > args.t.unix => ret.DaysUntil >= 0
        /\ ret.Date.unix <= args.t.unix => ret.DaysUntil <= 0

\* A change on the first scanned day, less than an hour before the window
\* begins, is passed over and the later change in the window is returned.
C22_Witness ==
    /\ Done("FindDSTTransition")
    /\ ret # NoValue
    /\ \E dh \in ScannedHours :
           /\ dh[1] = DayOf(args.t) - args.windowDays
           /\ Delta(dh[1], dh[2]) # 0
           /\ args.t.unix - Date(dh[1], dh[2], 0, args.t.loc).unix
                  > args.windowDays * 24 * 3600
           /\ args.t.unix - Date(dh[1], dh[2], 0, args.t.loc).unix
                  < args.windowDays * 24 * 3600 + 3600
           /\ ret.Date.unix > Date(dh[1], dh[2], 0, args.t.loc).unix

\* The zone of the TimeSpec's code, and the calendar date an instant has
\* there.
TargetZone == IATA[args.ts.IATA]

DateInTarget(t) == DayOf(In(t, TargetZone))

\* C23 as stated: the result's date in the target zone is the date the
\* reference has in the target zone; a code absent from the table gives an
\* error and the zero time.
C23_ResultOnReferenceDate ==
    Done("ResolveTime") =>
        IF args.ts.IATA \notin DOMAIN IATA
        THEN ret.err # NoError /\ ret.time = ZeroTime
        ELSE CanLoad(TargetZone) =>
                 /\ ret.err = NoError
                 /\ DateInTarget(ret.time) = DateInTarget(args.ref)

\* The wall-clock time of the TimeSpec exists in the target zone on the
\* date the reference has there.
TimeExistsOnReferenceDate ==
    \E offset \in {ZoneData[TargetZone].base}
                      \cup {ZoneData[TargetZone].tx[i].offset :
                                i \in DOMAIN ZoneData[TargetZone].tx} :
        Lookup(TargetZone,
               At(DateInTarget(args.ref), args.ts.Hour, args.ts.Minute)
                   - offset).offset = offset

\* Where the wall-clock time exists on the reference's date in the target
\* zone, the result is on that date; the date taken is that of the
\* reference in the target zone, also when its date in UTC differs.
C23_ResultOnReferenceDateWhereTimeExists ==
    (Done("ResolveTime") /\ args.ts.IATA \in DOMAIN IATA
         /\ CanLoad(TargetZone) /\ TimeExistsOnReferenceDate) =>
        /\ ret.err = NoError
        /\ DateInTarget(ret.time) = DateInTarget(args.ref)

\* Every location has the same offset at the instants a and b.
SameOffsets(a, b) ==
    \A k \in 1..Len(args.iatas) :
        OffsetAt(args.iatas[k], a) = OffsetAt(args.iatas[k], b)

\* C24: the Offset stored for a location is its zone's offset at the
\* reference instant, the overlap hours are those of that one offset at
\* all 24 UTC hours, and another reference at which every location has the
\* same offset gives the same result, OverlapHoursUTC and the Locations the
\* display reads alike.
C24_ReferenceOnlyThroughOffsets ==
    (Done("FindOverlap") /\ ret.err = NoError) =>
        /\ \A k \in 1..Len(args.iatas) :
               ret.result.Locations[k].Offset
                   = OffsetAt(args.iatas[k], args.refTime)
        /\ Elems(ret.result.OverlapHoursUTC) =
               {h \in 0..23 :
                   IsOverlap(h, ret.result.Locations, args.workHours)}
        /\ \A other \in OtherRefTimes :
               SameOffsets(other, args.refTime) =>
                   FindOverlap(args.iatas, args.workHours, other) = ret

\* A location whose offset changes during the year: the result is the same
\* at another instant with the same offsets and another at an instant with
\* a different offset.
C24_Witness ==
    /\ Done("FindOverlap")
    /\ ret.err = NoError
    /\ ret.result.OverlapHoursUTC # <<>>
    /\ \E other \in OtherRefTimes :
           /\ other # args.refTime
           /\ SameOffsets(other, args.refTime)
           /\ DayOf(other) # DayOf(args.refTime)
    /\ \E other \in OtherRefTimes :
           /\ ~SameOffsets(other, args.refTime)
           /\ FindOverlap(args.iatas, args.workHours, other).result
                  .OverlapHoursUTC # ret.result.OverlapHoursUTC

\* The overlap hours of a code list and a window at the reference instant
\* of the call, as a set.
HoursOf(iatas, workHours) ==
    Elems(FindOverlap(iatas, workHours, args.refTime).result.OverlapHoursUTC)

\* The windows drawn that contain the window of the call.
Widened ==
    {w \in CommonWorkHours :
        w.Start <= args.workHours.Start /\ args.workHours.End <= w.End}

\* Locations to add: whole-hour and half-hour offsets on either side of
\* UTC.
AddedCodes == {SFO, LON, <<"D", "E", "L">>, <<"Y", "Y", "T">>}

\* The list with the entries at i and j exchanged.
Exchanged(q, i, j) ==
    [k \in 1..Len(q) |-> IF k = i THEN q[j] ELSE IF k = j THEN q[i] ELSE q[k]]

\* C25: a window that contains the window of the call gives a superset of
\* its overlap hours, a further location a subset, and the codes in
\* another order the same hours.
C25_OverlapMonotone ==
    (Done("FindOverlap") /\ ret.err = NoError) =>
        /\ \A w \in Widened :
               Elems(ret.result.OverlapHoursUTC) \subseteq HoursOf(args.iatas, w)
        /\ \A code \in AddedCodes :
               HoursOf(Append(args.iatas, code), args.workHours)
                   \subseteq Elems(ret.result.OverlapHoursUTC)
        /\ \A i \in 1..Len(args.iatas), j \in 1..Len(args.iatas) :
               i < j =>
                   FindOverlap(Exchanged(args.iatas, i, j), args.workHours,
                               args.refTime).result.OverlapHoursUTC
                       = ret.result.OverlapHoursUTC

\* Three locations with different offsets and some overlap: a wider window
\* adds an hour and a further location takes one away.
C25_Witness ==
    /\ Done("FindOverlap")
    /\ ret.err = NoError
    /\ Len(args.iatas) = 3
    /\ ret.result.OverlapHoursUTC # <<>>
    /\ \A i \in 1..3, j \in 1..3 :
           i < j => ret.result.Locations[i].Offset
                        # ret.result.Locations[j].Offset
    /\ \E w \in Widened :
           HoursOf(args.iatas, w) # Elems(ret.result.OverlapHoursUTC)
    /\ \E code \in AddedCodes :
           HoursOf(Append(args.iatas, code), args.workHours)
               # Elems(ret.result.OverlapHoursUTC)

\* The hour of the wall clock offset seconds from UTC at the start of UTC
\* hour h: floor((h * 3600 + offset) / 3600) mod 24.
WallClockHour(h, offset) == ((h * 3600 + offset) \div 3600) % 24

\* C26 as stated: the overlap hours are those at which every location's
\* wall-clock hour floor((h * 3600 + Offset) / 3600) mod 24 is within the
\* window, for offsets that are not whole hours and for negative offsets
\* too.
C26_LocalHourIsWallClockHour ==
    (Done("FindOverlap") /\ ret.err = NoError) =>
        /\ \A k \in 1..Len(ret.result.Locations), h \in 0..23 :
               LocalHour(h, ret.result.Locations[k].Offset)
                   = WallClockHour(h, ret.result.Locations[k].Offset)
        /\ Elems(ret.result.OverlapHoursUTC) =
               {h \in 0..23 :
                   \A k \in 1..Len(ret.result.Locations) :
                       ~OutsideWorkHours(
                            WallClockHour(h, ret.result.Locations[k].Offset),
                            args.workHours)}

\* Where every offset is a whole number of hours or not negative, the
\* local hour is the wall-clock hour.
C26_LocalHourIsWallClockHourUnlessNegativeFraction ==
    (Done("FindOverlap") /\ ret.err = NoError
         /\ \A k \in 1..Len(ret.result.Locations) :
                \/ ret.result.Locations[k].Offset >= 0
                \/ ret.result.Locations[k].Offset % 3600 = 0) =>
        /\ \A k \in 1..Len(ret.result.Locations), h \in 0..23 :
               LocalHour(h, ret.result.Locations[k].Offset)
                   = WallClockHour(h, ret.result.Locations[k].Offset)
        /\ Elems(ret.result.OverlapHoursUTC) =
               {h \in 0..23 :
                   \A k \in 1..Len(ret.result.Locations) :
                       ~OutsideWorkHours(
                            WallClockHour(h, ret.result.Locations[k].Offset),
                            args.workHours)}

\* The ranges ShowOverlap grouped before writing them.
ShownRanges ==
    groupConsecutiveHours(
        FindOverlap(args.iatas, args.workHours,
                    IF args.now # NoValue THEN args.now ELSE args.clock)
            .result.OverlapHoursUTC)

\* The range lines written: all the lines but the last.
RangeLineIndices == 1..(Len(ret.out.lines) - 1)

\* The inequalities of C27 for one printed sub-range of a range of len
\* hours.
InsideWindow(part, len) ==
    /\ args.workHours.Start <= part.startLocal
    /\ part.startLocal < part.endLocal
    /\ part.endLocal <= args.workHours.End
    /\ part.endLocal - part.startLocal = len

\* C27 as stated: every printed local sub-range lies inside the work window
\* and has the range's length, also when End = 24 or when the overlap
\* covers all 24 hours.
C27_PrintedRangeInsideWindow ==
    (Done("ShowOverlap") /\ ret.error = NoError) =>
        \A i \in RangeLineIndices :
            \A k \in 1..Len(ret.out.lines[i].parts) :
                InsideWindow(ret.out.lines[i].parts[k],
                             ShownRanges[i].end - ShownRanges[i].start)

\* What is printed for one location and a range of len hours: startLocal
\* is a clock hour of the window, endLocal the clock hour len hours later,
\* 00 at midnight; a range shorter than the day ends within the window.
PrintedAsClockHours(part, len) ==
    /\ args.workHours.Start <= part.startLocal
    /\ part.startLocal < args.workHours.End
    /\ part.endLocal = (part.startLocal + len) % 24
    /\ len < 24 => part.startLocal + len <= args.workHours.End
    /\ InsideWindow(part, len) <=> part.startLocal + len < 24

\* C27: every printed local sub-range starts inside the work window and
\* ends at the clock hour the range's length later; it lies inside the
\* window with startLocal < endLocal exactly when it ends before local
\* midnight, and otherwise endLocal is 00 (the sub-range ends at 24) or
\* equal to startLocal (the overlap covers all 24 hours).
C27_PrintedRangeClockHours ==
    (Done("ShowOverlap") /\ ret.error = NoError) =>
        \A i \in RangeLineIndices :
            \A k \in 1..Len(ret.out.lines[i].parts) :
                PrintedAsClockHours(ret.out.lines[i].parts[k],
                                    ShownRanges[i].end - ShownRanges[i].start)

\* With the window 0-24 the overlap covers the whole day: a location away
\* from UTC is printed with endLocal equal to startLocal, one at UTC with
\* 00:00-00:00.
C27_Witness ==
    /\ Done("ShowOverlap")
    /\ ret.error = NoError
    /\ Len(ret.out.lines) = 2
    /\ ShownRanges = <<[start |-> 0, end |-> 24]>>
    /\ \E k \in 1..Len(ret.out.lines[1].parts) :
           /\ ret.out.lines[1].parts[k].startLocal # 0
           /\ ret.out.lines[1].parts[k].endLocal
                  = ret.out.lines[1].parts[k].startLocal
    /\ \E k \in 1..Len(ret.out.lines[1].parts) :
           /\ ret.out.lines[1].parts[k].startLocal = 0
           /\ ret.out.lines[1].parts[k].endLocal = 0

\* C28: ParseWorkHours accepts "17-9" and "22-6" as they are written, and
\* with a window whose Start is not before its End FindOverlap reports no
\* overlapping hour, whatever the locations and the reference.
C28_ReversedWindowNoOverlap ==
    /\ ParseWorkHours(<<"1", "7", "-", "9">>) = [Start |-> 17, End |-> 9]
    /\ ParseWorkHours(<<"2", "2", "-", "6">>) = [Start |-> 22, End |-> 6]
    /\ (Done("FindOverlap") /\ ret.err = NoError
            /\ args.workHours.Start >= args.workHours.End) =>
           ret.result.OverlapHoursUTC = <<>>

\* Two locations in one zone asked with 22-6: a window wrapping past
\* midnight would give them eight hours, and none is reported.
C28_Witness ==
    /\ Done("FindOverlap")
    /\ ret.err = NoError
    /\ args.workHours = [Start |-> 22, End |-> 6]
    /\ Len(args.iatas) = 2
    /\ ret.result.Locations[1].Offset = ret.result.Locations[2].Offset
    /\ ret.result.OverlapHoursUTC = <<>>

\* C29 as stated: a Save or Delete that returns an error leaves the
\* aliases in memory and the file as they were.
C29_ErrorChangesNothing ==
    [][((SaveStep \/ DeleteStep) /\ ret' # NoError)
           => (aliases' = aliases /\ disk' = disk)]_vars

\* The errors returned before anything is touched: an empty name, no
\* codes, a name that is not stored.
Rejected(err) ==
    err.msg \in {"alias name cannot be empty",
                 "alias must have at least one code", "alias not found"}

\* A Save or Delete that is rejected leaves memory and file as they were;
\* one whose write fails has changed the memory already.
C29_RejectionChangesNothing ==
    [][((SaveStep \/ DeleteStep) /\ ret' # NoError) =>
           IF Rejected(ret')
           THEN aliases' = aliases /\ disk' = disk
           ELSE /\ args'.op = "Save" =>
                    aliases' = Put(aliases, ToLower(args'.name),
                                   Normalized(args'.codes))
                /\ args'.op = "Delete" =>
                    aliases' = Remove(aliases, ToLower(args'.name))
                /\ disk' \in {disk, Truncated}]_vars

\* What a store opened on the file now would hold.
OnFile == NewAliasStoreWithPath(disk).aliases

\* C30 as stated: with two stores on one path the file holds every alias
\* saved by either and not deleted since, with the codes last saved, and no
\* alias whose last successful call was a Delete.
C30_FileHoldsEverySavedAlias ==
    (phase = "stores") =>
        \A n \in DOMAIN latest :
            IF latest[n].op = "Save"
            THEN n \in DOMAIN OnFile
                     /\ OnFile[n] = Normalized(latest[n].codes)
            ELSE n \notin DOMAIN OnFile

\* As long as only one of the stores has written, the file holds what was
\* saved through it.
C30_FileHoldsAliasesOfOneStore ==
    (phase = "stores" /\ reopened = NoValue) =>
        \A n \in DOMAIN latest :
            IF latest[n].op = "Save"
            THEN n \in DOMAIN OnFile
                     /\ OnFile[n] = Normalized(latest[n].codes)
            ELSE n \notin DOMAIN OnFile

=============================================================================
